---- MODULE Spec2Model ----
(***************************************************************************)
(* Covered-call planner (optionsplanner): the valuation and scoring        *)
(* engine of the covered-call page.                                        *)
(*                                                                         *)
(* Numbers.  A JavaScript number is modelled as a pair <<n, d>>:           *)
(*   d > 0   the finite value n/d, in lowest terms;                        *)
(*   d = 0   a non-finite value: <<0,0>> NaN, <<1,0>> +Infinity,           *)
(*           <<-1,0>> -Infinity.                                           *)
(* Arithmetic on these pairs is exact; division by zero yields the         *)
(* non-finite value JavaScript yields.  The binary64 rounding of sums and  *)
(* products is modelled apart, on whole numbers kept as bit sequences.     *)
(* Strings are sequences of one-character strings; the token "Infinity"    *)
(* stands for that eight-letter word.                                      *)
(***************************************************************************)
EXTENDS Integers, Sequences, FiniteSets, TLC

(* ---------------------------------------------------------------------- *)
(* Bounds of the model                                                     *)
(* ---------------------------------------------------------------------- *)
\* Longest raw impliedVolatility string that is enumerated.
MaxLen == 3

(* ---------------------------------------------------------------------- *)
(* JavaScript numbers                                                      *)
(* ---------------------------------------------------------------------- *)
Abs(n) == IF n < 0 THEN -n ELSE n

Sign(n) == IF n > 0 THEN 1 ELSE IF n < 0 THEN -1 ELSE 0

RECURSIVE GCD(_, _)
GCD(a, b) == IF b = 0 THEN a ELSE GCD(b, a % b)

\* The finite number n/d (d # 0), in lowest terms with a positive denominator.
Rat(n, d) ==
    LET g == GCD(Abs(n), Abs(d))
    IN  <<(Sign(d) * n) \div g, Abs(d) \div g>>

Num(n) == <<n, 1>>

NaN == <<0, 0>>
PosInf == <<1, 0>>
NegInf == <<-1, 0>>

IsNaN(a) == a = NaN
\* Number.isFinite
IsFinite(a) == a[2] # 0

RNeg(a) == <<-a[1], a[2]>>

RAdd(a, b) ==
    IF IsNaN(a) \/ IsNaN(b) THEN NaN
    ELSE IF ~IsFinite(a) /\ ~IsFinite(b) THEN (IF a = b THEN a ELSE NaN)
    ELSE IF ~IsFinite(a) THEN a
    ELSE IF ~IsFinite(b) THEN b
    ELSE Rat(a[1] * b[2] + b[1] * a[2], a[2] * b[2])

RSub(a, b) == RAdd(a, RNeg(b))

RMul(a, b) ==
    IF IsNaN(a) \/ IsNaN(b) THEN NaN
    ELSE IF ~IsFinite(a) \/ ~IsFinite(b)
         THEN <<Sign(a[1]) * Sign(b[1]), 0>>
    ELSE Rat(a[1] * b[1], a[2] * b[2])

\* JavaScript division: x/0 is +-Infinity, 0/0 is NaN; nothing is thrown.
RDiv(a, b) ==
    IF IsNaN(a) \/ IsNaN(b) THEN NaN
    ELSE IF ~IsFinite(a) /\ ~IsFinite(b) THEN NaN
    ELSE IF ~IsFinite(a) THEN <<Sign(a[1]) * (IF b[1] < 0 THEN -1 ELSE 1), 0>>
    ELSE IF ~IsFinite(b) THEN Num(0)
    ELSE IF b[1] = 0 THEN <<Sign(a[1]), 0>>
    ELSE Rat(a[1] * b[2], a[2] * b[1])

\* a < b; every comparison with NaN is false.
RLt(a, b) ==
    /\ ~IsNaN(a)
    /\ ~IsNaN(b)
    /\ IF ~IsFinite(a) /\ ~IsFinite(b) THEN a[1] < b[1]
       ELSE IF ~IsFinite(a) THEN a[1] < 0
       ELSE IF ~IsFinite(b) THEN b[1] > 0
       ELSE a[1] * b[2] < b[1] * a[2]

RLe(a, b) == ~IsNaN(a) /\ ~IsNaN(b) /\ (a = b \/ RLt(a, b))

RGt(a, b) == RLt(b, a)

RGe(a, b) == RLe(b, a)

\* Math.max / Math.min of two numbers (NaN if either is NaN).
RMax(a, b) == IF IsNaN(a) \/ IsNaN(b) THEN NaN ELSE IF RLt(a, b) THEN b ELSE a

RMin(a, b) == IF IsNaN(a) \/ IsNaN(b) THEN NaN ELSE IF RLt(b, a) THEN b ELSE a

\* Math.ceil of a finite number, as an integer.
Ceil(a) == -((-a[1]) \div a[2])

(* ---------------------------------------------------------------------- *)
(* Strings and parsing                                                     *)
(* ---------------------------------------------------------------------- *)
Digits == {"0", "1", "2", "3", "4", "5", "6", "7", "8", "9"}

DigitVal ==
    "0" :> 0 @@ "1" :> 1 @@ "2" :> 2 @@ "3" :> 3 @@ "4" :> 4 @@
    "5" :> 5 @@ "6" :> 6 @@ "7" :> 7 @@ "8" :> 8 @@ "9" :> 9

WhiteSpace == {" "}

RECURSIVE Pow10(_)
Pow10(k) == IF k = 0 THEN 1 ELSE 10 * Pow10(k - 1)

\* The string without its leading white space.
RECURSIVE TrimStart(_)
TrimStart(s) ==
    IF s # <<>> /\ s[1] \in WhiteSpace THEN TrimStart(Tail(s)) ELSE s

RECURSIVE TrimEnd(_)
TrimEnd(s) ==
    IF s # <<>> /\ s[Len(s)] \in WhiteSpace
    THEN TrimEnd(SubSeq(s, 1, Len(s) - 1))
    ELSE s

\* String.prototype.trim
Trim(s) == TrimEnd(TrimStart(s))

\* Length of the longest prefix of s made of decimal digits.
RECURSIVE DigitsPrefixLen(_)
DigitsPrefixLen(s) ==
    IF s # <<>> /\ s[1] \in Digits THEN 1 + DigitsPrefixLen(Tail(s)) ELSE 0

\* Decimal value of the first k characters of s (all digits).
RECURSIVE DigitsValue(_, _)
DigitsValue(s, k) ==
    IF k = 0 THEN 0 ELSE 10 * DigitsValue(s, k - 1) + DigitVal[s[k]]

\* Number.parseFloat: leading white space, an optional sign, then either
\* Infinity or the longest decimal literal; NaN when there is none.
\* Trailing characters are ignored.  (The alphabet has no exponent letter.)
parseFloat(str) ==
    LET s0 == TrimStart(str)
        neg == s0 # <<>> /\ s0[1] = "-"
        s1 == IF s0 # <<>> /\ s0[1] \in {"-", "+"} THEN Tail(s0) ELSE s0
        ni == DigitsPrefixLen(s1)
        s2 == SubSeq(s1, ni + 1, Len(s1))
        s3 == IF s2 # <<>> /\ s2[1] = "." THEN Tail(s2) ELSE <<>>
        nf == DigitsPrefixLen(s3)
        mag == Rat(DigitsValue(s1, ni) * Pow10(nf) + DigitsValue(s3, nf),
                   Pow10(nf))
    IN  IF s1 # <<>> /\ s1[1] = "Infinity"
        THEN (IF neg THEN NegInf ELSE PosInf)
        ELSE IF ni + nf = 0 THEN NaN
        ELSE IF neg THEN RNeg(mag) ELSE mag

\* Number.parseInt(str, 10): leading white space, an optional sign, then the
\* longest run of decimal digits; NaN when there is none.
parseInt(str) ==
    LET s0 == TrimStart(str)
        neg == s0 # <<>> /\ s0[1] = "-"
        s1 == IF s0 # <<>> /\ s0[1] \in {"-", "+"} THEN Tail(s0) ELSE s0
        ni == DigitsPrefixLen(s1)
    IN  IF ni = 0 THEN NaN
        ELSE Num((IF neg THEN -1 ELSE 1) * DigitsValue(s1, ni))

(* ---------------------------------------------------------------------- *)
(* Trade-quality scorer (evaluateTradeQuality)                             *)
(* ---------------------------------------------------------------------- *)
\* One addFactor(impact, note) call.
Factor(impact, note) == [impact |-> impact, note |-> note]

\* What one if/else chain of the scorer does: the addFactor calls it makes
\* (none on a neutral branch) and whether it raises the risk flag.
Chain(calls, risk) == [calls |-> calls, risk |-> risk]

\* premiumPerDayChain with a strict upper edge of the attractive band.
premiumPerDayChainStrict(premiumPerDayPct) ==
    IF RLt(premiumPerDayPct, Rat(5, 100))
    THEN Chain(<<Factor(-15, "Premium/day is low")>>, FALSE)
    ELSE IF RLt(premiumPerDayPct, Rat(12, 100))
    THEN Chain(<<>>, FALSE)
    ELSE IF RLt(premiumPerDayPct, Rat(2, 10))
    THEN Chain(<<Factor(10, "Premium/day is attractive")>>, FALSE)
    ELSE Chain(<<Factor(15, "Premium/day is very high")>>, TRUE)

premiumPerDayChain(premiumPerDayPct) ==
    IF RLt(premiumPerDayPct, Rat(5, 100))
    THEN Chain(<<Factor(-15, "Premium/day is low")>>, FALSE)
    ELSE IF RLt(premiumPerDayPct, Rat(12, 100))
    THEN Chain(<<>>, FALSE)
    ELSE IF RLe(premiumPerDayPct, Rat(2, 10))
    THEN Chain(<<Factor(10, "Premium/day is attractive")>>, FALSE)
    ELSE Chain(<<Factor(15, "Premium/day is very high")>>, TRUE)

downsideChain(downsideToBreakEvenPct) ==
    IF RLt(downsideToBreakEvenPct, Num(2))
    THEN Chain(<<Factor(-20, "Thin downside cushion")>>, FALSE)
    ELSE IF RLe(downsideToBreakEvenPct, Num(5))
    THEN Chain(<<>>, FALSE)
    ELSE IF RLe(downsideToBreakEvenPct, Num(8))
    THEN Chain(<<Factor(10, "Downside cushion is solid")>>, FALSE)
    ELSE Chain(<<Factor(15, "Downside cushion is strong")>>, FALSE)

upsideChain(upsideCapPct) ==
    IF RLt(upsideCapPct, Num(1))
    THEN Chain(<<Factor(-10, "Upside is very capped")>>, FALSE)
    ELSE IF RLe(upsideCapPct, Num(3))
    THEN Chain(<<Factor(-5, "Upside is capped")>>, FALSE)
    ELSE IF RLe(upsideCapPct, Num(7))
    THEN Chain(<<Factor(5, "Upside room is fair")>>, FALSE)
    ELSE Chain(<<Factor(10, "Upside room is healthy")>>, FALSE)

totalReturnChain(totalReturnPct) ==
    IF RLt(totalReturnPct, Num(8))
    THEN Chain(<<Factor(-10, "Max return potential is limited")>>, FALSE)
    ELSE IF RLt(totalReturnPct, Num(12))
    THEN Chain(<<>>, FALSE)
    ELSE IF RLe(totalReturnPct, Num(20))
    THEN Chain(<<Factor(10, "Return potential is strong")>>, FALSE)
    ELSE IF RLe(totalReturnPct, Num(35))
    THEN Chain(<<Factor(15, "Return potential is very strong")>>, FALSE)
    ELSE Chain(<<Factor(20, "Return potential is exceptional")>>, FALSE)

\* impliedVolatilityChain with -6 for low implied volatility.
impliedVolatilityChainSix(impliedVolatilityPct) ==
    IF RLt(impliedVolatilityPct, Num(15))
    THEN Chain(<<Factor(-6, "IV is low for option income")>>, FALSE)
    ELSE IF RLe(impliedVolatilityPct, Num(25))
    THEN Chain(<<>>, FALSE)
    ELSE IF RLe(impliedVolatilityPct, Num(45))
    THEN Chain(<<Factor(10, "IV supports stronger premium")>>, FALSE)
    ELSE IF RLe(impliedVolatilityPct, Num(65))
    THEN Chain(<<Factor(5, "IV is elevated")>>, TRUE)
    ELSE Chain(<<Factor(-5, "IV is extremely elevated")>>, TRUE)

impliedVolatilityChain(impliedVolatilityPct) ==
    IF RLt(impliedVolatilityPct, Num(15))
    THEN Chain(<<Factor(-8, "IV is low for option income")>>, FALSE)
    ELSE IF RLe(impliedVolatilityPct, Num(25))
    THEN Chain(<<>>, FALSE)
    ELSE IF RLe(impliedVolatilityPct, Num(45))
    THEN Chain(<<Factor(10, "IV supports stronger premium")>>, FALSE)
    ELSE IF RLe(impliedVolatilityPct, Num(65))
    THEN Chain(<<Factor(5, "IV is elevated")>>, TRUE)
    ELSE Chain(<<Factor(-5, "IV is extremely elevated")>>, TRUE)

\* The second chain over totalReturnPct, after the implied-volatility chain.
secondTotalReturnChain(totalReturnPct) ==
    IF RLe(totalReturnPct, Num(15))
    THEN Chain(<<>>, FALSE)
    ELSE IF RLe(totalReturnPct, Num(30))
    THEN Chain(<<Factor(5, "Return potential is decent")>>, FALSE)
    ELSE IF RLe(totalReturnPct, Num(50))
    THEN Chain(<<Factor(10, "Return potential is strong")>>, FALSE)
    ELSE Chain(<<Factor(15, "Return potential is exceptional")>>, FALSE)

RECURSIVE SumImpacts(_)
SumImpacts(calls) ==
    IF calls = <<>> THEN 0 ELSE calls[1].impact + SumImpacts(Tail(calls))

\* clampScore without the Math.min(100, ...) cap.
clampScoreNoCap(score) == IF score > 0 THEN score ELSE 0

\* Math.max(0, Math.min(100, score))
clampScore(score) ==
    LET capped == IF score < 100 THEN score ELSE 100
    IN  IF capped > 0 THEN capped ELSE 0

\* Array.prototype.sort((a, b) => b.impact - a.impact): stable, descending.
RECURSIVE InsertByImpact(_, _)
InsertByImpact(sorted, f) ==
    IF sorted = <<>> THEN <<f>>
    ELSE IF sorted[Len(sorted)].impact >= f.impact THEN Append(sorted, f)
    ELSE Append(InsertByImpact(SubSeq(sorted, 1, Len(sorted) - 1), f),
                sorted[Len(sorted)])

RECURSIVE SortByImpactDesc(_)
SortByImpactDesc(fs) ==
    IF fs = <<>> THEN <<>>
    ELSE InsertByImpact(SortByImpactDesc(SubSeq(fs, 1, Len(fs) - 1)),
                        fs[Len(fs)])

\* .sort(...).slice(0, 2).map((factor) => factor.note)
topNotes(factorNotes) ==
    LET sorted == SortByImpactDesc(factorNotes)
        kept == SubSeq(sorted, 1, IF Len(sorted) < 2 THEN Len(sorted) ELSE 2)
    IN  [i \in 1..Len(kept) |-> kept[i].note]

\* tradeQualityLabel with a strict first threshold.
tradeQualityLabelStrict(clampedScore) ==
    IF clampedScore > 80 THEN "Strong"
    ELSE IF clampedScore >= 65 THEN "Reasonable"
    ELSE IF clampedScore >= 50 THEN "Borderline"
    ELSE "Weak"

tradeQualityLabel(clampedScore) ==
    IF clampedScore >= 80 THEN "Strong"
    ELSE IF clampedScore >= 65 THEN "Reasonable"
    ELSE IF clampedScore >= 50 THEN "Borderline"
    ELSE "Weak"

\* The result carries, besides the four returned fields, two locals of the
\* function for observation: rawScore (score before the clamp) and
\* factorNotes (the pushed entries, in push order, before the sort).
evaluateTradeQuality(args) ==
    LET premium == premiumPerDayChain(args.premiumPerDayPct)
        downside == downsideChain(args.downsideToBreakEvenPct)
        upside == upsideChain(args.upsideCapPct)
        return == totalReturnChain(args.totalReturnPct)
        iv == impliedVolatilityChain(args.impliedVolatilityPct)
        return2 == secondTotalReturnChain(args.totalReturnPct)
        calls == premium.calls \o downside.calls \o upside.calls
                 \o return.calls \o iv.calls \o return2.calls
        score == 50 + SumImpacts(calls)
        factorNotes == [i \in 1..Len(calls) |->
                          [impact |-> Abs(calls[i].impact),
                           note |-> calls[i].note]]
        clampedScore == clampScore(score)
    IN  [score |-> clampedScore,
         label |-> tradeQualityLabel(clampedScore),
         notes |-> topNotes(factorNotes),
         hasElevatedRiskWarning |-> premium.risk \/ iv.risk,
         rawScore |-> score,
         factorNotes |-> factorNotes]

(* ---------------------------------------------------------------------- *)
(* Technical scorer (evaluateTechnicalScore)                               *)
(* ---------------------------------------------------------------------- *)
\* null
Null == <<>>

\* Number.prototype.toFixed(k) of a finite number, as the integer count of
\* 10^-k units (ties away from zero).
\* A non-finite number is rendered by name; it is returned as it is.
ToFixed(a, k) ==
    IF ~IsFinite(a) THEN a
    ELSE LET n == Abs(a[1]) * Pow10(k)
             q == (2 * n + a[2]) \div (2 * a[2])
         IN  Sign(a[1]) * q

\* A note built from a template literal: its fixed text and the formatted
\* number spliced into it.
NoteWith(text, fixed) == <<text, fixed>>

\* A note that is a plain string.
Note(text) == <<text>>

\* getTechnicalGrade with the A threshold exclusive.
getTechnicalGradeStrict(score) ==
    IF score > 85 THEN "A"
    ELSE IF score >= 70 THEN "B"
    ELSE IF score >= 55 THEN "C"
    ELSE IF score >= 40 THEN "D"
    ELSE "F"

getTechnicalGrade(score) ==
    IF score >= 85 THEN "A"
    ELSE IF score >= 70 THEN "B"
    ELSE IF score >= 55 THEN "C"
    ELSE IF score >= 40 THEN "D"
    ELSE "F"

\* hasAtLeastOneMa requiring all three moving averages.
hasAllMa(args) ==
    args.ma20 # Null /\ args.ma50 # Null /\ args.ma200 # Null

hasAtLeastOneMa(args) ==
    args.ma20 # Null \/ args.ma50 # Null \/ args.ma200 # Null

\* The early return of evaluateTechnicalScore.
technicalUnavailable(args) ==
    \/ args.rsi = Null
    \/ args.adx = Null
    \/ ~hasAtLeastOneMa(args)
    \/ RLe(args.stockPrice, Num(0))

\* rsiComponent scoring the oversold-bounce band above the soft band.
rsiComponentBounce(rsi) ==
    IF RGe(rsi, Num(45)) /\ RLe(rsi, Num(60))
    THEN [score |-> 30,
          note |-> NoteWith("Momentum is balanced", ToFixed(rsi, 1))]
    ELSE IF RGt(rsi, Num(60)) /\ RLe(rsi, Num(70))
    THEN [score |-> 22,
          note |-> NoteWith("Momentum is strong but getting extended",
                            ToFixed(rsi, 1))]
    ELSE IF RGe(rsi, Num(30)) /\ RLt(rsi, Num(45))
    THEN [score |-> 18,
          note |-> NoteWith("Momentum is soft but not oversold",
                            ToFixed(rsi, 1))]
    ELSE IF RGt(rsi, Num(70)) /\ RLe(rsi, Num(80))
    THEN [score |-> 12,
          note |-> NoteWith("Overbought risk is elevated", ToFixed(rsi, 1))]
    ELSE IF RGe(rsi, Num(20)) /\ RLt(rsi, Num(30))
    THEN [score |-> 20,
          note |-> NoteWith("Oversold bounce potential exists",
                            ToFixed(rsi, 1))]
    ELSE IF RGt(rsi, Num(80))
    THEN [score |-> 6,
          note |-> NoteWith("Momentum is extremely overbought",
                            ToFixed(rsi, 1))]
    ELSE [score |-> 8,
          note |-> NoteWith("Momentum is deeply oversold", ToFixed(rsi, 1))]

rsiComponent(rsi) ==
    IF RGe(rsi, Num(45)) /\ RLe(rsi, Num(60))
    THEN [score |-> 30,
          note |-> NoteWith("Momentum is balanced", ToFixed(rsi, 1))]
    ELSE IF RGt(rsi, Num(60)) /\ RLe(rsi, Num(70))
    THEN [score |-> 22,
          note |-> NoteWith("Momentum is strong but getting extended",
                            ToFixed(rsi, 1))]
    ELSE IF RGe(rsi, Num(30)) /\ RLt(rsi, Num(45))
    THEN [score |-> 18,
          note |-> NoteWith("Momentum is soft but not oversold",
                            ToFixed(rsi, 1))]
    ELSE IF RGt(rsi, Num(70)) /\ RLe(rsi, Num(80))
    THEN [score |-> 12,
          note |-> NoteWith("Overbought risk is elevated", ToFixed(rsi, 1))]
    ELSE IF RGe(rsi, Num(20)) /\ RLt(rsi, Num(30))
    THEN [score |-> 14,
          note |-> NoteWith("Oversold bounce potential exists",
                            ToFixed(rsi, 1))]
    ELSE IF RGt(rsi, Num(80))
    THEN [score |-> 6,
          note |-> NoteWith("Momentum is extremely overbought",
                            ToFixed(rsi, 1))]
    ELSE [score |-> 8,
          note |-> NoteWith("Momentum is deeply oversold", ToFixed(rsi, 1))]

adxComponent(adx) ==
    IF RLt(adx, Num(15))
    THEN [score |-> 6,
          note |-> NoteWith("Trend strength is weak", ToFixed(adx, 1))]
    ELSE IF RLt(adx, Num(20))
    THEN [score |-> 12,
          note |-> NoteWith("Trend strength is building", ToFixed(adx, 1))]
    ELSE IF RLt(adx, Num(25))
    THEN [score |-> 18,
          note |-> NoteWith("Trend strength is moderate", ToFixed(adx, 1))]
    ELSE IF RLt(adx, Num(35))
    THEN [score |-> 25,
          note |-> NoteWith("Trend strength is strong", ToFixed(adx, 1))]
    ELSE IF RLt(adx, Num(45))
    THEN [score |-> 22,
          note |-> NoteWith("Trend is very strong, but late-cycle risk exists",
                            ToFixed(adx, 1))]
    ELSE [score |-> 18,
          note |-> NoteWith("Trend is extreme with reversal risk",
                            ToFixed(adx, 1))]

\* maPriceScore crediting a price equal to the moving average.
maPriceScoreInclusive(stockPrice, ma20, ma50, ma200) ==
    (IF ma200 # Null THEN (IF RGe(stockPrice, ma200) THEN 10 ELSE 2) ELSE 0)
    + (IF ma50 # Null THEN (IF RGe(stockPrice, ma50) THEN 8 ELSE 2) ELSE 0)
    + (IF ma20 # Null THEN (IF RGe(stockPrice, ma20) THEN 6 ELSE 2) ELSE 0)

\* maScore before the alignment bonus: one term per moving average present.
maPriceScore(stockPrice, ma20, ma50, ma200) ==
    (IF ma200 # Null THEN (IF RGt(stockPrice, ma200) THEN 10 ELSE 2) ELSE 0)
    + (IF ma50 # Null THEN (IF RGt(stockPrice, ma50) THEN 8 ELSE 2) ELSE 0)
    + (IF ma20 # Null THEN (IF RGt(stockPrice, ma20) THEN 6 ELSE 2) ELSE 0)

\* maAlignment with a bullish bonus of 12.
maAlignmentTwelve(ma20, ma50, ma200) ==
    IF ma20 # Null /\ ma50 # Null /\ ma200 # Null
    THEN IF RGt(ma20, ma50) /\ RGt(ma50, ma200)
         THEN [bonus |-> 12,
               note |-> Note("Moving averages are bullishly aligned (20 > 50 > 200)")]
         ELSE IF RLt(ma20, ma50) /\ RLt(ma50, ma200)
         THEN [bonus |-> 0,
               note |-> Note("Moving averages are bearishly aligned (20 < 50 < 200)")]
         ELSE [bonus |-> 5,
               note |-> Note("Moving averages show mixed trend alignment")]
    ELSE [bonus |-> 0, note |-> Null]

\* The alignment bonus and note; the note stays null unless all three moving
\* averages are present.
maAlignment(ma20, ma50, ma200) ==
    IF ma20 # Null /\ ma50 # Null /\ ma200 # Null
    THEN IF RGt(ma20, ma50) /\ RGt(ma50, ma200)
         THEN [bonus |-> 11,
               note |-> Note("Moving averages are bullishly aligned (20 > 50 > 200)")]
         ELSE IF RLt(ma20, ma50) /\ RLt(ma50, ma200)
         THEN [bonus |-> 0,
               note |-> Note("Moving averages are bearishly aligned (20 < 50 < 200)")]
         ELSE [bonus |-> 5,
               note |-> Note("Moving averages show mixed trend alignment")]
    ELSE [bonus |-> 0, note |-> Null]

\* maScore = Math.min(35, maScore); uncapped keeps the sum before the cap.
maComponent(stockPrice, ma20, ma50, ma200) ==
    LET uncapped == maPriceScore(stockPrice, ma20, ma50, ma200)
                    + maAlignment(ma20, ma50, ma200).bonus
    IN  [score |-> IF uncapped < 35 THEN uncapped ELSE 35,
         uncapped |-> uncapped,
         note |-> maAlignment(ma20, ma50, ma200).note]

atrComponent(stockPrice, atr) ==
    IF atr = Null THEN [score |-> 0, note |-> Null]
    ELSE LET atrPct == RMul(RDiv(atr, stockPrice), Num(100))
         IN  IF RLt(atrPct, Num(1))
             THEN [score |-> 10,
                   note |-> NoteWith("Volatility is stable", ToFixed(atrPct, 2))]
             ELSE IF RLt(atrPct, Num(2))
             THEN [score |-> 8,
                   note |-> NoteWith("Volatility is controlled",
                                     ToFixed(atrPct, 2))]
             ELSE IF RLt(atrPct, Rat(35, 10))
             THEN [score |-> 5,
                   note |-> NoteWith("Volatility is moderate",
                                     ToFixed(atrPct, 2))]
             ELSE IF RLt(atrPct, Num(5))
             THEN [score |-> 3,
                   note |-> NoteWith("Volatility is elevated",
                                     ToFixed(atrPct, 2))]
             ELSE [score |-> 1,
                   note |-> NoteWith("Volatility is high", ToFixed(atrPct, 2))]

\* Math.max(0, Math.min(100, rsiScore + adxScore + maScore + atrScore))
clampTechnicalScore(sum) ==
    LET capped == IF sum < 100 THEN sum ELSE 100
    IN  IF capped > 0 THEN capped ELSE 0

\* [..].filter((note) => Boolean(note)): the notes that are not null.
RECURSIVE FilterNotes(_)
FilterNotes(ns) ==
    IF ns = <<>> THEN <<>>
    ELSE IF ns[1] = Null THEN FilterNotes(Tail(ns))
    ELSE <<ns[1]>> \o FilterNotes(Tail(ns))

\* The result carries, besides score, grade and notes, the four component
\* scores and the unclamped sum for observation.
evaluateTechnicalScore(args) ==
    IF technicalUnavailable(args) THEN Null
    ELSE LET r == rsiComponent(args.rsi)
             a == adxComponent(args.adx)
             m == maComponent(args.stockPrice, args.ma20, args.ma50, args.ma200)
             v == atrComponent(args.stockPrice, args.atr)
             sum == r.score + a.score + m.score + v.score
             score == clampTechnicalScore(sum)
             notes == FilterNotes(<<a.note, r.note, m.note, v.note>>)
         IN  [score |-> score,
              grade |-> getTechnicalGrade(score),
              notes |-> SubSeq(notes, 1, IF Len(notes) < 4 THEN Len(notes) ELSE 4),
              rsiScore |-> r.score,
              adxScore |-> a.score,
              maScore |-> m.score,
              maUncapped |-> m.uncapped,
              atrScore |-> v.score,
              sum |-> sum]

(* ---------------------------------------------------------------------- *)
(* Calendar                                                                *)
(* ---------------------------------------------------------------------- *)
\* Time is counted in hours (the code counts milliseconds); a calendar day
\* is named by its index.  Local clocks run one hour ahead from 02:00 of
\* SpringForwardDay until 02:00 of FallBackDay.
HoursPerDay == 24

SpringForwardDay == 20

FallBackDay == 50

\* Hours the local clock is ahead of standard time at local midnight of day.
DstHours(day) == IF day > SpringForwardDay /\ day <= FallBackDay THEN 1 ELSE 0

\* The instant of local midnight of a calendar day.
LocalMidnight(day) == day * HoursPerDay - DstHours(day)

\* A date string names a calendar day iff it is a non-empty run of digits.
IsDateString(s) == s # <<>> /\ DigitsPrefixLen(s) = Len(s)

\* new Date(`${s}T00:00:00`).getTime(): local midnight of the day, or NaN.
dateGetTime(s) ==
    IF IsDateString(s) THEN Num(LocalMidnight(DigitsValue(s, Len(s)))) ELSE NaN

DigitChar == <<"0", "1", "2", "3", "4", "5", "6", "7", "8", "9">>

\* date.toISOString().slice(0, 10) of an instant within calendar day `day`.
RECURSIVE formatDateInput(_)
formatDateInput(day) ==
    IF day < 10 THEN <<DigitChar[day + 1]>>
    ELSE formatDateInput(day \div 10) \o <<DigitChar[(day % 10) + 1]>>

calculateDaysUntilExpiration(expirationDate, today) ==
    LET expiration == dateGetTime(expirationDate)
        todayTime == Num(LocalMidnight(today))
        diff == RSub(expiration, todayTime)
        days == Ceil(RDiv(diff, Num(HoursPerDay)))
    IN  IF IsNaN(expiration) THEN Num(0)
        ELSE Num(IF days > 0 THEN days ELSE 0)

(* ---------------------------------------------------------------------- *)
(* Form state                                                              *)
(* ---------------------------------------------------------------------- *)
getDefaultFormState(expirationDay) ==
    [symbol |-> <<"A", "A", "P", "L">>,
     stockPrice |-> <<"9", "5">>,
     strikePrice |-> <<"1", "0", "5">>,
     premium |-> <<"2", ".", "7", "5">>,
     dividendPerShare |-> <<"0", ".", "2", "5">>,
     dividendsExpected |-> <<"1">>,
     shares |-> <<"1", "0", "0">>,
     impliedVolatility |-> <<"3", "0">>,
     expirationDate |-> formatDateInput(expirationDay),
     atr14 |-> <<>>,
     adx14 |-> <<>>,
     rsi14 |-> <<>>,
     ma20 |-> <<>>,
     ma50 |-> <<>>,
     ma200 |-> <<>>]

getResetFormState(todayDay) ==
    [symbol |-> <<>>,
     stockPrice |-> <<"0">>,
     strikePrice |-> <<"0">>,
     premium |-> <<"0">>,
     dividendPerShare |-> <<"0">>,
     dividendsExpected |-> <<"0">>,
     shares |-> <<"0">>,
     impliedVolatility |-> <<"3", "0">>,
     expirationDate |-> formatDateInput(todayDay),
     atr14 |-> <<>>,
     adx14 |-> <<>>,
     rsi14 |-> <<>>,
     ma20 |-> <<>>,
     ma50 |-> <<>>,
     ma200 |-> <<>>]

(* ---------------------------------------------------------------------- *)
(* Valuation engine (the calculations memo)                                *)
(* ---------------------------------------------------------------------- *)
\* Number.isFinite(parsed) ? parsed : 0
safeNumber(parsed) == IF IsFinite(parsed) THEN parsed ELSE Num(0)

safeStockPrice(form) == safeNumber(parseFloat(form.stockPrice))

\* safeImpliedVolatility without the Math.max(5, ...) floor.
safeImpliedVolatilityNoFloor(impliedVolatility) ==
    LET parsedImpliedVolatility == parseFloat(impliedVolatility)
    IN  IF IsFinite(parsedImpliedVolatility)
        THEN RMin(Num(100), parsedImpliedVolatility)
        ELSE Num(30)

safeImpliedVolatility(impliedVolatility) ==
    LET parsedImpliedVolatility == parseFloat(impliedVolatility)
    IN  IF IsFinite(parsedImpliedVolatility)
        THEN RMin(Num(100), RMax(Num(5), parsedImpliedVolatility))
        ELSE Num(30)

\* maxProfitPerShare without the dividends.
maxProfitPerShareNoDividend(strike, stock, premium, dividendPerShareTotal) ==
    RAdd(RSub(strike, stock), premium)

maxProfitPerShare(strike, stock, premium, dividendPerShareTotal) ==
    RAdd(RAdd(RSub(strike, stock), premium), dividendPerShareTotal)

\* breakevenPrice without the dividends.
breakevenPriceNoDividend(stock, premium, dividendPerShareTotal) ==
    RSub(stock, premium)

breakevenPrice(stock, premium, dividendPerShareTotal) ==
    RSub(RSub(stock, premium), dividendPerShareTotal)

\* totalReturn without the stock-price guard.
totalReturnUnguarded(maxProfit, stock) == RDiv(maxProfit, stock)

totalReturn(maxProfit, stock) ==
    IF RGt(stock, Num(0)) THEN RDiv(maxProfit, stock) ELSE Num(0)

premiumPct(premium, stock) ==
    IF RGt(stock, Num(0)) THEN RMul(RDiv(premium, stock), Num(100)) ELSE Num(0)

premiumPerDayPct(pct, days) ==
    IF RGt(days, Num(0)) THEN RDiv(pct, days) ELSE Num(0)

upsideCapPct(strike, stock) ==
    IF RGt(stock, Num(0))
    THEN RMul(RDiv(RSub(strike, stock), stock), Num(100))
    ELSE Num(0)

\* downsideToBreakEvenPct without the Math.max(0, ...) floor.
downsideToBreakEvenPctNoFloor(stock, breakeven) ==
    IF RGt(stock, Num(0)) /\ IsFinite(breakeven)
    THEN RMul(RDiv(RSub(stock, breakeven), stock), Num(100))
    ELSE Num(0)

downsideToBreakEvenPct(stock, breakeven) ==
    IF RGt(stock, Num(0)) /\ IsFinite(breakeven)
    THEN RMax(Num(0), RMul(RDiv(RSub(stock, breakeven), stock), Num(100)))
    ELSE Num(0)

\* computeAnnualizedReturn on a 360-day year.
computeAnnualizedReturn360(total, days) ==
    IF RGt(days, Num(0)) THEN RMul(total, RDiv(Num(360), days)) ELSE Num(0)

computeAnnualizedReturn(total, days) ==
    IF RGt(days, Num(0)) THEN RMul(total, RDiv(Num(365), days)) ELSE Num(0)

\* The value of the calculations memo for a form state, on calendar day today.
\* Besides the returned fields it carries safeDividendPerShare and the
\* arguments passed to evaluateTradeQuality, for observation.
calculationsMemo(form, today) ==
    LET stock == safeStockPrice(form)
        strike == safeNumber(parseFloat(form.strikePrice))
        premium == safeNumber(parseFloat(form.premium))
        dividendPerShare == safeNumber(parseFloat(form.dividendPerShare))
        dividendsExpected == safeNumber(parseInt(form.dividendsExpected))
        shares == safeNumber(parseInt(form.shares))
        iv == safeImpliedVolatility(form.impliedVolatility)
        days == calculateDaysUntilExpiration(form.expirationDate, today)
        dividendTotal == RMul(dividendPerShare, dividendsExpected)
        grossCost == RMul(stock, shares)
        premiumTotal == RMul(premium, shares)
        maxProfit == maxProfitPerShare(strike, stock, premium, dividendTotal)
        breakeven == breakevenPrice(stock, premium, dividendTotal)
        total == totalReturn(maxProfit, stock)
        pct == premiumPct(premium, stock)
        perDay == premiumPerDayPct(pct, days)
        upside == upsideCapPct(strike, stock)
        downside == downsideToBreakEvenPct(stock, breakeven)
        qualityArgs == [premiumPerDayPct |-> perDay,
                        downsideToBreakEvenPct |-> downside,
                        upsideCapPct |-> upside,
                        totalReturnPct |-> RMul(total, Num(100)),
                        impliedVolatilityPct |-> iv]
    IN  [safeStockPrice |-> stock,
         safeStrikePrice |-> strike,
         safePremium |-> premium,
         safeDividendPerShare |-> dividendPerShare,
         safeShares |-> shares,
         safeImpliedVolatility |-> iv,
         safeDividendsExpected |-> dividendsExpected,
         daysUntilExpiration |-> days,
         dividendPerShareTotal |-> dividendTotal,
         grossCost |-> grossCost,
         netCost |-> RSub(grossCost, premiumTotal),
         netCostPerShare |-> RSub(stock, premium),
         premiumTotal |-> premiumTotal,
         dividendsTotal |-> RMul(dividendTotal, shares),
         maxProfitPerShare |-> maxProfit,
         maxProfitTotal |-> RMul(maxProfit, shares),
         breakevenPrice |-> breakeven,
         premiumPct |-> pct,
         premiumPerDayPct |-> perDay,
         downsideToBreakEvenPct |-> downside,
         upsideCapValue |-> RSub(strike, stock),
         upsideCapPct |-> upside,
         totalReturn |-> total,
         annualizedReturn |-> computeAnnualizedReturn(total, days),
         tradeQuality |-> evaluateTradeQuality(qualityArgs),
         tradeQualityInput |-> qualityArgs]

\* toNullableNumber falling back to 0 where the code falls back to null.
toNullableNumberZero(value) ==
    IF Trim(value) = <<>> THEN Null
    ELSE LET parsed == parseFloat(value)
         IN  IF IsFinite(parsed) THEN parsed ELSE Num(0)

toNullableNumber(value) ==
    IF Trim(value) = <<>> THEN Null
    ELSE LET parsed == parseFloat(value)
         IN  IF IsFinite(parsed) THEN parsed ELSE Null

\* The arguments the technicalScore memo passes to evaluateTechnicalScore.
technicalScoreArgs(form) ==
    [stockPrice |-> safeStockPrice(form),
     atr |-> toNullableNumber(form.atr14),
     adx |-> toNullableNumber(form.adx14),
     rsi |-> toNullableNumber(form.rsi14),
     ma20 |-> toNullableNumber(form.ma20),
     ma50 |-> toNullableNumber(form.ma50),
     ma200 |-> toNullableNumber(form.ma200)]

(* ---------------------------------------------------------------------- *)
(* The valuation engine in binary64, on whole numbers                      *)
(* ---------------------------------------------------------------------- *)
\* The numbers of the code are IEEE 754 binary64 values: every sum, difference
\* and product is the exact result rounded to 53 significant bits, ties to
\* even.  For whole numbers the rounding is computed here bit by bit.  A
\* magnitude is a sequence of bits, least significant first, whose last bit
\* is 1 (the empty sequence is 0); a whole number is a record
\* [neg, bits].  No exponent comes near the range limit, so nothing
\* overflows to Infinity.
\* Bit i of a magnitude (1 is the least significant one).
Bit(a, i) == IF i <= Len(a) THEN a[i] ELSE 0

BitsNorm(a) ==
    LET ones == {i \in 1..Len(a) : a[i] = 1}
    IN  IF ones = {} THEN <<>>
        ELSE SubSeq(a, 1, CHOOSE m \in ones : \A i \in ones : i <= m)

\* The carry into bit i of a + b.
BitsCarry(a, b, i) ==
    IF \E j \in 1..(i - 1) :
          /\ Bit(a, j) = 1
          /\ Bit(b, j) = 1
          /\ \A k \in (j + 1)..(i - 1) : Bit(a, k) + Bit(b, k) = 1
    THEN 1 ELSE 0

BitsAdd(a, b) ==
    LET n == (IF Len(a) > Len(b) THEN Len(a) ELSE Len(b)) + 1
    IN  BitsNorm([i \in 1..n |->
                     (Bit(a, i) + Bit(b, i) + BitsCarry(a, b, i)) % 2])

\* The borrow from bit i of a - b.
BitsBorrow(a, b, i) ==
    IF \E j \in 1..(i - 1) :
          /\ Bit(a, j) = 0
          /\ Bit(b, j) = 1
          /\ \A k \in (j + 1)..(i - 1) : ~(Bit(a, k) = 1 /\ Bit(b, k) = 0)
    THEN 1 ELSE 0

\* a - b for a >= b.
BitsSub(a, b) ==
    BitsNorm([i \in 1..Len(a) |->
                 (2 + Bit(a, i) - Bit(b, i) - BitsBorrow(a, b, i)) % 2])

BitsLess(a, b) ==
    \E i \in 1..Len(b) :
        /\ Bit(a, i) < b[i]
        /\ \A k \in (i + 1)..(Len(a) + Len(b)) : Bit(a, k) = Bit(b, k)

\* a * 2^k
BitsShift(a, k) == IF a = <<>> THEN <<>> ELSE [i \in 1..k |-> 0] \o a

\* The sum of a * 2^(i-1) over the bits i of b in lo..hi that are 1.
RECURSIVE BitsPartialProducts(_, _, _, _)
BitsPartialProducts(a, b, lo, hi) ==
    IF lo = hi THEN (IF b[lo] = 1 THEN BitsShift(a, lo - 1) ELSE <<>>)
    ELSE LET mid == (lo + hi) \div 2
         IN  BitsAdd(BitsPartialProducts(a, b, lo, mid),
                     BitsPartialProducts(a, b, mid + 1, hi))

BitsMul(a, b) ==
    IF b = <<>> THEN <<>> ELSE BitsPartialProducts(a, b, 1, Len(b))

RECURSIVE BitsOfNat(_)
BitsOfNat(n) == IF n = 0 THEN <<>> ELSE <<n % 2>> \o BitsOfNat(n \div 2)

\* Rounding to 53 significant bits, ties to even.
BitsRound(a) ==
    IF Len(a) <= 53 THEN a
    ELSE LET drop == Len(a) - 53
             kept == SubSeq(a, drop + 1, Len(a))
             half == a[drop] = 1
             sticky == \E i \in 1..(drop - 1) : a[i] = 1
             up == half /\ (sticky \/ kept[1] = 1)
         IN  BitsShift(IF up THEN BitsAdd(kept, <<1>>) ELSE kept, drop)

Whole(neg, bits) == [neg |-> neg /\ bits # <<>>, bits |-> bits]

WholeNeg(a) == Whole(~a.neg, a.bits)

\* The exact sum and product of two whole numbers.
WholeAdd(a, b) ==
    IF a.neg = b.neg THEN Whole(a.neg, BitsAdd(a.bits, b.bits))
    ELSE IF BitsLess(a.bits, b.bits) THEN Whole(b.neg, BitsSub(b.bits, a.bits))
    ELSE Whole(a.neg, BitsSub(a.bits, b.bits))

WholeMul(a, b) == Whole(a.neg # b.neg, BitsMul(a.bits, b.bits))

WholeRound(a) == Whole(a.neg, BitsRound(a.bits))

\* The operators +, - and * of the code on whole-number operands.
Binary64Add(a, b) == WholeRound(WholeAdd(a, b))

Binary64Sub(a, b) == WholeRound(WholeAdd(a, WholeNeg(b)))

Binary64Mul(a, b) == WholeRound(WholeMul(a, b))

\* The exact value of a run of decimal digits, eight digits at a time.
RECURSIVE DigitsBits(_)
DigitsBits(s) ==
    IF Len(s) <= 8 THEN BitsOfNat(DigitsValue(s, Len(s)))
    ELSE BitsAdd(BitsMul(DigitsBits(SubSeq(s, 1, Len(s) - 8)),
                         BitsOfNat(Pow10(8))),
                 BitsOfNat(DigitsValue(SubSeq(s, Len(s) - 7, Len(s)), 8)))

\* Number.parseFloat and Number.parseInt(_, 10) on a string that is an
\* optional minus sign followed by decimal digits only: the nearest binary64
\* value of the whole number written.
parseWholeNumber(str) ==
    LET neg == str # <<>> /\ str[1] = "-"
        digits == IF neg THEN Tail(str) ELSE str
    IN  WholeRound(Whole(neg, DigitsBits(digits)))

\* The sums and products of the calculations memo for a form state whose
\* numeric fields are whole numbers (all finite, so every safe value is the
\* parsed value).  The field rounded names the results that differ from the
\* exact result of their operation.
calculationsBinary64(form) ==
    LET safeStockPrice64 == parseWholeNumber(form.stockPrice)
        safeStrikePrice == parseWholeNumber(form.strikePrice)
        safePremium == parseWholeNumber(form.premium)
        safeDividendPerShare == parseWholeNumber(form.dividendPerShare)
        safeDividendsExpected == parseWholeNumber(form.dividendsExpected)
        safeShares == parseWholeNumber(form.shares)
        dividendPerShareTotal == Binary64Mul(safeDividendPerShare, safeDividendsExpected)
        grossCost == Binary64Mul(safeStockPrice64, safeShares)
        premiumTotal == Binary64Mul(safePremium, safeShares)
        dividendsTotal == Binary64Mul(dividendPerShareTotal, safeShares)
        netCost == Binary64Sub(grossCost, premiumTotal)
        netCostPerShare == Binary64Sub(safeStockPrice64, safePremium)
        strikeLessStock == Binary64Sub(safeStrikePrice, safeStockPrice64)
        plusPremium == Binary64Add(strikeLessStock, safePremium)
        maxProfit == Binary64Add(plusPremium, dividendPerShareTotal)
        stockLessPremium == Binary64Sub(safeStockPrice64, safePremium)
        breakeven == Binary64Sub(stockLessPremium, dividendPerShareTotal)
        rounded ==
            (IF dividendPerShareTotal # WholeMul(safeDividendPerShare, safeDividendsExpected)
             THEN {"dividendPerShareTotal"} ELSE {})
            \cup (IF grossCost # WholeMul(safeStockPrice64, safeShares)
                  THEN {"grossCost"} ELSE {})
            \cup (IF premiumTotal # WholeMul(safePremium, safeShares)
                  THEN {"premiumTotal"} ELSE {})
            \cup (IF netCost # WholeAdd(grossCost, WholeNeg(premiumTotal))
                  THEN {"netCost"} ELSE {})
            \cup (IF netCostPerShare # WholeAdd(safeStockPrice64, WholeNeg(safePremium))
                  THEN {"netCostPerShare"} ELSE {})
            \cup (IF \/ strikeLessStock # WholeAdd(safeStrikePrice, WholeNeg(safeStockPrice64))
                     \/ plusPremium # WholeAdd(strikeLessStock, safePremium)
                     \/ maxProfit # WholeAdd(plusPremium, dividendPerShareTotal)
                  THEN {"maxProfitPerShare"} ELSE {})
            \cup (IF breakeven # WholeAdd(stockLessPremium, WholeNeg(dividendPerShareTotal))
                  THEN {"breakevenPrice"} ELSE {})
    IN  [safeStockPrice |-> safeStockPrice64,
         safeStrikePrice |-> safeStrikePrice,
         safePremium |-> safePremium,
         safeShares |-> safeShares,
         dividendPerShareTotal |-> dividendPerShareTotal,
         grossCost |-> grossCost,
         netCost |-> netCost,
         netCostPerShare |-> netCostPerShare,
         premiumTotal |-> premiumTotal,
         dividendsTotal |-> dividendsTotal,
         maxProfitPerShare |-> maxProfit,
         breakevenPrice |-> breakeven,
         rounded |-> rounded]

(* ---------------------------------------------------------------------- *)
(* Inputs that are enumerated                                              *)
(* ---------------------------------------------------------------------- *)
\* Characters of the raw strings that are enumerated exhaustively.
Chars == {"0", "1", "5", "9", ".", "-", " ", "x", "Infinity"}

\* Every string over Chars of length at most MaxLen.
RawStrings == UNION {[1..n -> Chars] : n \in 0..MaxLen}

\* A digit, the other characters of a number, a blank, a letter and the
\* token Infinity: the characters of the strings tried in every field.
FieldChars == {"0", ".", "-", " ", "x", "Infinity"}

\* Every string over FieldChars of length at most MaxLen.
FieldStrings == UNION {[1..n -> FieldChars] : n \in 0..MaxLen}

\* The calendar day of the first render.
FirstDay == 0

DefaultForm == getDefaultFormState(FirstDay + 30)

\* Arguments of evaluateTradeQuality, in hundredths of a percent: the values
\* on, just below and just above every threshold of the six chains.
PremiumPerDayValues == {4, 5, 11, 12, 20, 21, 25}

DownsideValues == {199, 200, 500, 501, 800, 801}

UpsideValues == {99, 100, 300, 301, 700, 701}

TotalReturnValues ==
    {799, 800, 1199, 1200, 1500, 1501, 2000, 2001, 3000, 3001, 3500, 3501,
     5000, 5001}

ImpliedVolatilityValues ==
    {1499, 1500, 2500, 2501, 4500, 4501, 6500, 6501}

TradeQualityInputs ==
    [premiumPerDayPct : {Rat(v, 100) : v \in PremiumPerDayValues},
     downsideToBreakEvenPct : {Rat(v, 100) : v \in DownsideValues},
     upsideCapPct : {Rat(v, 100) : v \in UpsideValues},
     totalReturnPct : {Rat(v, 100) : v \in TotalReturnValues},
     impliedVolatilityPct : {Rat(v, 100) : v \in ImpliedVolatilityValues}]

\* Form states in which only impliedVolatility departs from the default.
ImpliedVolatilityForms ==
    {[DefaultForm EXCEPT !.impliedVolatility = s] : s \in RawStrings}

StockPriceStrings ==
    {<<"9", "5">>, <<"1", "0", "0">>, <<"0">>, <<"-", "5">>, <<>>, <<"x">>,
     <<"Infinity">>}

StrikePriceStrings == {<<"1", "0", "5">>, <<"9", "0">>, <<"0">>}

PremiumStrings == {<<"2", ".", "7", "5">>, <<"5", "x">>, <<"0">>}

DividendPerShareStrings == {<<"0", ".", "2", "5">>, <<"0">>, <<"x">>}

DividendsExpectedStrings ==
    {<<"1">>, <<"0">>, <<"2">>, <<"-", "1">>, <<"1", ".", "9">>}

SharesStrings == {<<"1", "0", "0">>, <<"1">>, <<"0">>}

ExpirationDateStrings ==
    {formatDateInput(FirstDay + 30), formatDateInput(FirstDay + 31),
     formatDateInput(FirstDay + 60), formatDateInput(FirstDay), <<>>, <<"x">>}

TodayValues == {FirstDay, FirstDay + 25, FirstDay + 40}

\* Form states in which the core fields vary; the expiration is 30 days
\* after FirstDay, or FirstDay itself.
CoreForms ==
    {[DefaultForm EXCEPT !.stockPrice = a, !.strikePrice = b, !.premium = c,
                         !.dividendPerShare = d, !.dividendsExpected = e,
                         !.shares = f, !.expirationDate = g] :
        a \in StockPriceStrings, b \in StrikePriceStrings,
        c \in PremiumStrings, d \in DividendPerShareStrings,
        e \in DividendsExpectedStrings, f \in SharesStrings,
        g \in {formatDateInput(FirstDay + 30), formatDateInput(FirstDay)}}

\* Form states in which the expiration date and the stock price vary.
ExpirationForms ==
    {[DefaultForm EXCEPT !.stockPrice = a, !.expirationDate = g] :
        a \in {<<"9", "5">>, <<"0">>}, g \in ExpirationDateStrings}

CoreNumericFields ==
    {"stockPrice", "strikePrice", "premium", "dividendPerShare",
     "dividendsExpected", "shares"}

TechnicalFields == {"atr14", "adx14", "rsi14", "ma20", "ma50", "ma200"}

\* Form states in which one core numeric field holds any raw string and the
\* others keep their defaults.
CoreFieldForms ==
    {[DefaultForm EXCEPT ![f] = s] :
        f \in CoreNumericFields, s \in FieldStrings}

\* Whole-number strings, some of them next to 2^53 = 9007199254740992 and
\* 2^52 = 4503599627370496.
WholeStockPriceStrings ==
    {<<"1">>, <<"9", "5">>,
     <<"9", "0", "0", "7", "1", "9", "9", "2", "5", "4", "7", "4", "0", "9", "9", "1">>,
     <<"4", "5", "0", "3", "5", "9", "9", "6", "2", "7", "3", "7", "0", "4", "9", "7">>}

WholeStrikePriceStrings ==
    {<<"1", "0", "5">>,
     <<"9", "0", "0", "7", "1", "9", "9", "2", "5", "4", "7", "4", "0", "9", "9", "2">>}

\* Form states whose numeric fields are whole numbers.
WholeNumberForms ==
    {[DefaultForm EXCEPT !.stockPrice = a, !.strikePrice = b, !.premium = c,
                         !.dividendPerShare = d, !.dividendsExpected = <<"1">>,
                         !.shares = f] :
        a \in WholeStockPriceStrings, b \in WholeStrikePriceStrings,
        c \in {<<"2">>, <<"3">>}, d \in {<<"0">>, <<"1">>},
        f \in {<<"1">>, <<"1", "0", "0">>, <<"3">>, <<"5">>}}

\* The renders of the calculations memo that are enumerated.
CalculationsInputs ==
    ((ImpliedVolatilityForms \cup CoreForms \cup CoreFieldForms) \X {FirstDay})
    \cup (ExpirationForms \X TodayValues)

TechnicalStockPriceStrings == {<<"9", "5">>, <<"0">>, <<"-", "5">>}

AtrStrings ==
    {<<>>, <<"0", ".", "5">>, <<"1">>, <<"2", ".", "5">>, <<"4">>, <<"5">>}

AdxStrings ==
    {<<>>, <<" ">>, <<"1", "0">>, <<"1", "5">>, <<"2", "0">>, <<"2", "5">>,
     <<"3", "5">>, <<"4", "5">>}

RsiStrings ==
    {<<>>, <<"x">>, <<"1", "0">>, <<"2", "0">>, <<"3", "0">>, <<"4", "5">>,
     <<"6", "0">>, <<"6", "1">>, <<"7", "0">>, <<"7", "1">>, <<"8", "0">>,
     <<"8", "1">>, <<"1", "9">>, <<"2", "9">>, <<"4", "4">>}

MovingAverageStrings == {<<>>, <<"9", "0">>, <<"9", "5">>, <<"1", "0", "0">>}

\* Form states in which the stock price and the ATR, ADX and RSI fields
\* vary, with no moving average or with the three of them bullishly aligned
\* under the default price.
IndicatorForms ==
    {[DefaultForm EXCEPT !.stockPrice = p, !.atr14 = a, !.adx14 = x,
                         !.rsi14 = r, !.ma20 = m[1], !.ma50 = m[2],
                         !.ma200 = m[3]] :
        p \in TechnicalStockPriceStrings, a \in AtrStrings, x \in AdxStrings,
        r \in RsiStrings,
        m \in {<<<<>>, <<>>, <<>>>>,
               <<<<"9", "4">>, <<"9", "2">>, <<"9", "0">>>>}}

\* Form states in which the stock price and the three moving averages vary.
MovingAverageForms ==
    {[DefaultForm EXCEPT !.stockPrice = p, !.atr14 = a, !.adx14 = x,
                         !.rsi14 = r, !.ma20 = m1, !.ma50 = m2, !.ma200 = m3] :
        p \in TechnicalStockPriceStrings, a \in {<<>>, <<"5">>},
        x \in {<<>>, <<"1", "0">>, <<"2", "5">>},
        r \in {<<>>, <<"8", "1">>, <<"4", "5">>},
        m1 \in MovingAverageStrings, m2 \in MovingAverageStrings,
        m3 \in MovingAverageStrings}

\* Form states in which one technical field holds any raw string and the
\* others keep their defaults.
TechnicalFieldForms ==
    {[DefaultForm EXCEPT ![f] = s] :
        f \in TechnicalFields, s \in FieldStrings}

TechnicalForms ==
    IndicatorForms \cup MovingAverageForms \cup TechnicalFieldForms

(* ---------------------------------------------------------------------- *)
(* Symbol lookup route                                                     *)
(* ---------------------------------------------------------------------- *)
LowerCase ==
    <<"a", "b", "c", "d", "e", "f", "g", "h", "i", "j", "k", "l", "m",
      "n", "o", "p", "q", "r", "s", "t", "u", "v", "w", "x", "y", "z">>

UpperCase ==
    <<"A", "B", "C", "D", "E", "F", "G", "H", "I", "J", "K", "L", "M",
      "N", "O", "P", "Q", "R", "S", "T", "U", "V", "W", "X", "Y", "Z">>

\* String.prototype.toUpperCase on the letters a..z; other characters are
\* kept.
toUpperCase(s) ==
    [i \in 1..Len(s) |->
        IF \E k \in 1..Len(LowerCase) : LowerCase[k] = s[i]
        THEN UpperCase[CHOOSE k \in 1..Len(LowerCase) : LowerCase[k] = s[i]]
        ELSE s[i]]

\* The fixed table: one entry per own key of the object literal.
SYMBOL_METADATA ==
    {
     [symbol |-> <<"A", "A", "P", "L">>,
      companyName |-> "Apple Inc.", sector |-> "Technology"],
     [symbol |-> <<"M", "S", "F", "T">>,
      companyName |-> "Microsoft Corporation", sector |-> "Technology"],
     [symbol |-> <<"G", "O", "O", "G", "L">>,
      companyName |-> "Alphabet Inc.", sector |-> "Communication Services"],
     [symbol |-> <<"G", "O", "O", "G">>,
      companyName |-> "Alphabet Inc.", sector |-> "Communication Services"],
     [symbol |-> <<"A", "M", "Z", "N">>,
      companyName |-> "Amazon.com, Inc.", sector |-> "Consumer Discretionary"],
     [symbol |-> <<"N", "V", "D", "A">>,
      companyName |-> "NVIDIA Corporation", sector |-> "Technology"],
     [symbol |-> <<"M", "E", "T", "A">>,
      companyName |-> "Meta Platforms, Inc.", sector |-> "Communication Services"],
     [symbol |-> <<"T", "S", "L", "A">>,
      companyName |-> "Tesla, Inc.", sector |-> "Consumer Discretionary"],
     [symbol |-> <<"B", "R", "K", ".", "B">>,
      companyName |-> "Berkshire Hathaway Inc.", sector |-> "Financials"],
     [symbol |-> <<"J", "P", "M">>,
      companyName |-> "JPMorgan Chase & Co.", sector |-> "Financials"],
     [symbol |-> <<"X", "O", "M">>,
      companyName |-> "Exxon Mobil Corporation", sector |-> "Energy"],
     [symbol |-> <<"J", "N", "J">>,
      companyName |-> "Johnson & Johnson", sector |-> "Health Care"],
     [symbol |-> <<"V">>,
      companyName |-> "Visa Inc.", sector |-> "Financials"],
     [symbol |-> <<"W", "M", "T">>,
      companyName |-> "Walmart Inc.", sector |-> "Consumer Staples"],
     [symbol |-> <<"P", "G">>,
      companyName |-> "Procter & Gamble Company", sector |-> "Consumer Staples"],
     [symbol |-> <<"U", "N", "H">>,
      companyName |-> "UnitedHealth Group Incorporated", sector |-> "Health Care"]
    }

\* Names every object inherits from Object.prototype (two of them); a
\* property read table[name] finds them when the table has no own key.
ObjectPrototypeNames == {<<"c", "o", "n", "s", "t", "r", "u", "c", "t", "o", "r">>, <<"t", "o", "S", "t", "r", "i", "n", "g">>}

\* A request without the symbol parameter, and one carrying it.
NoSymbolParam == [has |-> FALSE]

SymbolParam(value) == [has |-> TRUE, value |-> value]

\* searchParams.get("symbol")?.toUpperCase() ?? "", without the trim.
requestSymbolNoTrim(param) ==
    IF param.has THEN toUpperCase(param.value) ELSE <<>>

\* searchParams.get("symbol")?.trim().toUpperCase() ?? ""
requestSymbol(param) ==
    IF param.has THEN toUpperCase(Trim(param.value)) ELSE <<>>

\* table[symbol]: the own entry, an inherited member, or undefined.
tableLookup(table, symbol) ==
    IF \E e \in table : e.symbol = symbol
    THEN [found |-> "own", entry |-> CHOOSE e \in table : e.symbol = symbol]
    ELSE IF symbol \in ObjectPrototypeNames
    THEN [found |-> "inherited"]
    ELSE [found |-> "undefined"]

\* The response of the GET handler.
GET(param, table) ==
    LET symbol == requestSymbol(param)
        symbolDetails == tableLookup(table, symbol)
    IN  IF symbol = <<>>
        THEN [status |-> 400, error |-> "Symbol is required."]
        ELSE IF symbolDetails.found = "undefined"
        THEN [status |-> 404,
              error |-> "No local company metadata available for this symbol yet."]
        ELSE IF symbolDetails.found = "inherited"
        THEN [status |-> 200, symbol |-> symbol]
        ELSE [status |-> 200, symbol |-> symbol,
              companyName |-> symbolDetails.entry.companyName,
              sector |-> symbolDetails.entry.sector]

\* Characters of the symbol parameters that are enumerated exhaustively.
SymbolChars == {"a", "A", "v", "V", " ", "."}

\* The requests that are enumerated: no parameter, every string over
\* SymbolChars of length at most MaxLen, and some longer symbols.
SymbolRequests ==
    {NoSymbolParam}
    \cup {SymbolParam(s) : s \in UNION {[1..n -> SymbolChars] : n \in 0..MaxLen}}
    \cup {SymbolParam(s) : s \in
            {<<"a", "a", "p", "l">>, <<"A", "A", "P", "L">>, <<" ", "b", "r", "k", ".", "b", " ">>, <<"B", "R", "K", ".", "B">>, <<"M", "s", "f", "t">>,
             <<"c", "o", "n", "s", "t", "r", "u", "c", "t", "o", "r">>, <<"t", "o", "S", "t", "r", "i", "n", "g">>,
             <<"Z", "Z", "Z", "Z">>}}

(* ---------------------------------------------------------------------- *)
(* Persistence of the form state                                           *)
(* ---------------------------------------------------------------------- *)
\* The keys of FormState.
FormFields ==
    {"symbol", "stockPrice", "strikePrice", "premium", "dividendPerShare",
     "dividendsExpected", "shares", "impliedVolatility", "expirationDate",
     "atr14", "adx14", "rsi14", "ma20", "ma50", "ma200"}

\* The fields the hydration effect repairs as numbers.
numberFields ==
    {"stockPrice", "strikePrice", "premium", "dividendPerShare",
     "dividendsExpected", "shares", "impliedVolatility", "atr14", "adx14",
     "rsi14", "ma20", "ma50", "ma200"}

\* JSON values.  An object is a function from the names it has to values.
JString(s) == [type |-> "string", value |-> s]

JNumber(r) == [type |-> "number", number |-> r]

JBoolean(b) == [type |-> "boolean", flag |-> b]

JNull == [type |-> "null"]

JObject(fields) == [type |-> "object", fields |-> fields]

Undefined == [type |-> "undefined"]

\* The item under STORAGE_KEY: absent, the empty text, a text that is not
\* JSON, or the JSON text of a value.
NoItem == [kind |-> "none"]

EmptyText == [kind |-> "empty"]

InvalidText == [kind |-> "invalid"]

JsonText(value) == [kind |-> "json", value |-> value]

\* JSON.stringify leaving out the fields that hold the empty string.
JSONstringifyNonEmpty(form) ==
    JsonText(JObject([f \in {g \in FormFields : form[g] # <<>>}
                        |-> JString(form[f])]))

\* JSON.stringify(formState): an object with one string per field.
JSONstringify(form) ==
    JsonText(JObject([f \in FormFields |-> JString(form[f])]))

\* parsed?.[name]
Property(parsed, name) ==
    IF parsed.type = "object" /\ name \in DOMAIN parsed.fields
    THEN parsed.fields[name]
    ELSE Undefined

\* The decimal digits of a natural number.
RECURSIVE NatToString(_)
NatToString(n) ==
    IF n < 10 THEN <<DigitChar[n + 1]>>
    ELSE NatToString(n \div 10) \o <<DigitChar[(n % 10) + 1]>>

\* The digits after the decimal point of rest/d (a terminating decimal).
RECURSIVE FractionDigits(_, _)
FractionDigits(rest, d) ==
    IF rest = 0 THEN <<>>
    ELSE <<DigitChar[((rest * 10) \div d) + 1]>>
         \o FractionDigits((rest * 10) % d, d)

\* String(value) of a finite number with a short decimal expansion.
NumberToString(r) ==
    LET n == Abs(r[1])
        d == r[2]
    IN  (IF r[1] < 0 THEN <<"-">> ELSE <<>>)
        \o NatToString(n \div d)
        \o (IF n % d = 0 THEN <<>> ELSE <<".">> \o FractionDigits(n % d, d))

\* The repair of one number field that takes stored strings only.
repairNumberFieldStringsOnly(value, default) ==
    IF value.type = "string" THEN value.value ELSE default

\* The repair of one number field: a stored string, the string of a stored
\* finite number, or the default.
repairNumberField(value, default) ==
    IF value.type = "string" THEN value.value
    ELSE IF value.type = "number" /\ IsFinite(value.number)
    THEN NumberToString(value.number)
    ELSE default

\* nextState of the hydration effect for a parsed snapshot.
repairFormState(parsed, defaults) ==
    [f \in FormFields |->
        LET value == Property(parsed, f)
        IN  IF f = "symbol"
            THEN IF value.type = "string"
                 THEN SubSeq(toUpperCase(value.value), 1,
                             IF Len(value.value) < 10 THEN Len(value.value)
                             ELSE 10)
                 ELSE defaults[f]
            ELSE IF f = "expirationDate"
            THEN IF value.type = "string" /\ ~IsNaN(dateGetTime(value.value))
                 THEN value.value
                 ELSE defaults[f]
            ELSE repairNumberField(value, defaults[f])]

\* The hydration effect: whether it calls setFormState, and with what.
hydrationEffect(stored, defaults) ==
    IF stored.kind \in {"none", "empty"}
    THEN [setFormState |-> FALSE]
    ELSE IF stored.kind = "invalid"
    THEN [setFormState |-> TRUE, nextState |-> defaults]
    ELSE [setFormState |-> TRUE,
          nextState |-> repairFormState(stored.value, defaults)]

\* The refs of the page and the timers of its window, as one record.
\* saveTimeout is 0 for null; hasCleanup tells whether the last run of the
\* save effect returned its cleanup function.
FreshRefs ==
    [hasHydrated |-> FALSE, skipNextSave |-> FALSE, saveTimeout |-> 0,
     hasCleanup |-> FALSE, timers |-> {}, nextTimerId |-> 1]

\* clearTimeout that cancels nothing.
clearTimeoutIgnored(pending, id) == pending

\* clearTimeout(id) on the set of pending timers.
clearTimeout(pending, id) == {t \in pending : t.id # id}

\* A guarded clearTimeout that is never taken.
clearSaveTimeoutNever(r) == r.timers

\* if (saveTimeout.current) clearTimeout(saveTimeout.current)
clearSaveTimeout(r) ==
    IF r.saveTimeout # 0 THEN clearTimeout(r.timers, r.saveTimeout)
    ELSE r.timers

\* A save effect that returns no cleanup.
saveEffectCleanupNone(r) == r

\* The cleanup the previous run of the save effect returned, if any.
saveEffectCleanup(r) ==
    IF r.hasCleanup THEN [r EXCEPT !.timers = clearSaveTimeout(r)] ELSE r

\* The body of the save effect without the line that consumes skipNextSave.
saveEffectBodyKeepSkip(form, r) ==
    IF ~r.hasHydrated THEN [r EXCEPT !.hasCleanup = FALSE]
    ELSE IF r.skipNextSave
    THEN [r EXCEPT !.hasCleanup = FALSE]
    ELSE [r EXCEPT !.timers = clearSaveTimeout(r)
                               \cup {[id |-> r.nextTimerId, form |-> form]},
                   !.saveTimeout = r.nextTimerId,
                   !.nextTimerId = r.nextTimerId + 1,
                   !.hasCleanup = TRUE]

\* The body of the save effect for the rendered form state.
saveEffectBody(form, r) ==
    IF ~r.hasHydrated THEN [r EXCEPT !.hasCleanup = FALSE]
    ELSE IF r.skipNextSave
    THEN [r EXCEPT !.skipNextSave = FALSE, !.hasCleanup = FALSE]
    ELSE [r EXCEPT !.timers = clearSaveTimeout(r)
                               \cup {[id |-> r.nextTimerId, form |-> form]},
                   !.saveTimeout = r.nextTimerId,
                   !.nextTimerId = r.nextTimerId + 1,
                   !.hasCleanup = TRUE]

\* The save effect after a render whose formState changed: the cleanup of
\* the previous run, then the body.
saveEffect(form, r) == saveEffectBody(form, saveEffectCleanup(r))

\* The calendar days on which the page is loaded.
PageDays == {FirstDay, FirstDay + 1}

\* The most timers one load of the page sets.
MaxTimers == 4

\* A form state that differs from the defaults in every field.
SnapshotForm ==
    [symbol |-> <<"M", "S", "F", "T">>,
     stockPrice |-> <<"1", "0", "0">>,
     strikePrice |-> <<"1", "1", "0">>,
     premium |-> <<"3">>,
     dividendPerShare |-> <<"0", ".", "5">>,
     dividendsExpected |-> <<"2">>,
     shares |-> <<"2", "0", "0">>,
     impliedVolatility |-> <<"4", "5">>,
     expirationDate |-> formatDateInput(FirstDay + 60),
     atr14 |-> <<"2">>,
     adx14 |-> <<"2", "5">>,
     rsi14 |-> <<"5", "0">>,
     ma20 |-> <<"9", "8">>,
     ma50 |-> <<"9", "6">>,
     ma200 |-> <<"9", "0">>]

\* The values a stored snapshot holds under one name: strings (empty, not a
\* number, a number, lower-case, longer than ten characters), finite and
\* non-finite numbers, null, booleans, an object, or nothing.
StoredValues ==
    {JString(<<>>), JString(<<"x">>), JString(<<"4", "5">>),
     JString(<<"1", ".", "5">>), JString(<<"v">>),
     JString(<<"a", "a", "a", "a", "a", "a", "a", "a", "a", "a", "a", "a">>),
     JNumber(Num(12)), JNumber(Num(0)), JNumber(Num(-1)),
     JNumber(Rat(275, 100)), JNumber(Rat(-5, 10)),
     JNumber(PosInf), JNumber(NegInf),
     JNull, JBoolean(TRUE), JBoolean(FALSE), JObject(<<>>), Undefined}

\* The snapshot of SnapshotForm with one name holding value instead.
SnapshotWith(field, value) ==
    JsonText(JObject(
        [g \in (IF value = Undefined THEN FormFields \ {field} ELSE FormFields)
            |-> IF g = field THEN value ELSE JString(SnapshotForm[g])]))

\* The storage items hydration is run on: nothing, the empty text, a text
\* that is not JSON, JSON that is not an object, and the snapshots with one
\* name holding any of StoredValues.
StoredItems ==
    {NoItem, EmptyText, InvalidText, JsonText(JNull), JsonText(JNumber(Num(5))),
     JsonText(JString(<<"x">>)), JsonText(JBoolean(TRUE)),
     JsonText(JObject(<<>>))}
    \cup {SnapshotWith(f, v) : f \in FormFields, v \in StoredValues}

\* Form states the user has edited, whose save and reload are followed.
EditedForms ==
    {[DefaultForm EXCEPT ![f] = s] :
        f \in {"stockPrice", "rsi14"}, s \in FieldStrings}
    \cup {[DefaultForm EXCEPT !.symbol = s] :
            s \in UNION {[1..n -> SymbolChars] : n \in 0..MaxLen}}
    \cup {[SnapshotForm EXCEPT !.expirationDate = d] :
            d \in {<<>>, formatDateInput(FirstDay + 45)}}
    \cup {[SnapshotForm EXCEPT ![f] = <<"7">>] : f \in FormFields}

\* The input events of the page over its lifetime: field and new value.
Edits ==
    {<<"symbol", <<"v">>>>, <<"stockPrice", <<"1", "0", "0">>>>,
     <<"expirationDate", <<>>>>, <<"rsi14", <<"4", "5">>>>}

\* The storage items the page is first loaded over.
PageItems ==
    {NoItem, InvalidText, JSONstringify(SnapshotForm),
     SnapshotWith("stockPrice", JNumber(Rat(275, 100)))}

(* ---------------------------------------------------------------------- *)
(* Celebration (src/app/covered-call/page.tsx)                             *)
(* ---------------------------------------------------------------------- *)
\* The version of the page that celebrates a good plan keeps the seven core
\* fields in its form state and computes annualizedReturn as the calculations
\* memo above does; the other fields of the record stay at their defaults.
\* A call of a state setter, queued until the next render.
SetState(setter, value) == [setter |-> setter, value |-> value]

\* The value a piece of state takes in the next render: that of the last
\* queued call of its setter, or the current one.
LatestState(queue, setter, current) ==
    LET calls == {i \in 1..Len(queue) : queue[i].setter = setter}
    IN  IF calls = {} THEN current
        ELSE queue[CHOOSE i \in calls : \A j \in calls : j <= i].value

\* The isDefaultPlan memo.
isDefaultPlan(form, defaultForm) ==
    \A key \in DOMAIN defaultForm : defaultForm[key] = form[key]

\* The plan-snapshot effect for the rendered form state: the new value of
\* lastPlanSnapshot (NoItem is null) and the setters it calls.
planSnapshotEffect(form, last) ==
    LET currentSnapshot == JSONstringify(form)
    IN  IF last = NoItem
        THEN [lastPlanSnapshot |-> currentSnapshot, updates |-> <<>>]
        ELSE IF currentSnapshot # last
        THEN [lastPlanSnapshot |-> currentSnapshot,
              updates |-> <<SetState("setHasTriggeredConfetti", FALSE),
                            SetState("setHasUpdatedPlan", TRUE)>>]
        ELSE [lastPlanSnapshot |-> last, updates |-> <<>>]

\* The dependency list of the confetti effect.
confettiDeps(currentReturn, triggered, updatedPlan, defaultPlan, focused, inView) ==
    <<currentReturn, triggered, updatedPlan, defaultPlan, focused, inView>>

\* The confetti effect without setHasTriggeredConfetti(true).
confettiEffectNoLatch(inView, triggered, focused, currentReturn, updatedPlan, defaultPlan, reducedMotion) ==
    IF ~inView THEN [confetti |-> FALSE, updates |-> <<>>]
    ELSE IF triggered \/ focused THEN [confetti |-> FALSE, updates |-> <<>>]
    ELSE IF ~IsFinite(currentReturn) \/ RLe(currentReturn, Rat(15, 100))
    THEN [confetti |-> FALSE, updates |-> <<>>]
    ELSE IF ~updatedPlan /\ defaultPlan
    THEN [confetti |-> FALSE, updates |-> <<>>]
    ELSE IF reducedMotion THEN [confetti |-> FALSE, updates |-> <<>>]
    ELSE [confetti |-> TRUE, updates |-> <<>>]

\* The confetti effect with the values of its render: whether confetti() is
\* called, and the setters it calls.
confettiEffect(inView, triggered, focused, currentReturn, updatedPlan, defaultPlan, reducedMotion) ==
    IF ~inView THEN [confetti |-> FALSE, updates |-> <<>>]
    ELSE IF triggered \/ focused THEN [confetti |-> FALSE, updates |-> <<>>]
    ELSE IF ~IsFinite(currentReturn) \/ RLe(currentReturn, Rat(15, 100))
    THEN [confetti |-> FALSE, updates |-> <<>>]
    ELSE IF ~updatedPlan /\ defaultPlan
    THEN [confetti |-> FALSE, updates |-> <<>>]
    ELSE IF reducedMotion THEN [confetti |-> FALSE, updates |-> <<>>]
    ELSE [confetti |-> TRUE,
          updates |-> <<SetState("setHasTriggeredConfetti", TRUE)>>]

\* The plans the form is set to: the default plan, an edited plan with a
\* higher return, a plan whose annualized return is exactly 0.15, and the
\* reset plan.
CelebrationForms ==
    {DefaultForm,
     [DefaultForm EXCEPT !.premium = <<"3">>],
     [DefaultForm EXCEPT !.stockPrice = <<"7", "3", "0">>,
                         !.strikePrice = <<"7", "3", "6">>],
     getResetFormState(FirstDay)}

(* ---------------------------------------------------------------------- *)
(* State                                                                   *)
(* ---------------------------------------------------------------------- *)
VARIABLES
    rendered,          \* which computation has run: "none" or its name
    formState,         \* the form state (FormState)
    today,             \* the calendar day of new Date()
    calculations,      \* value of the calculations memo
    technicalInput,    \* arguments passed to evaluateTechnicalScore
    technicalScore,    \* value of the technicalScore memo
    tradeQualityInput, \* arguments of a direct evaluateTradeQuality call
    tradeQuality,      \* its result
    request,           \* symbol parameter of the last lookup request
    response,          \* response of the last lookup request
    symbolMetadata,    \* the lookup table of the route module
    phase,             \* "unloaded", "mounted", "hydrated" or "edited"
    defaults,          \* defaultFormStateRef.current
    pendingState,      \* the setFormState the hydration effect queued
    refs,              \* hasHydrated, skipNextSave, saveTimeout, timers
    storage,           \* the localStorage item under STORAGE_KEY
    written,           \* the last form state the page wrote to storage
    resultsInView,         \* state: the results section is in view
    hasTriggeredConfetti,  \* state
    hasUpdatedPlan,        \* state
    isInputFocused,        \* state
    lastPlanSnapshot,      \* ref: JSON of the last form state seen, or null
    updates,               \* the setter calls queued for the next render
    prefersReducedMotion,  \* the media query (prefers-reduced-motion: reduce)
    launches,              \* confetti() calls since the plan last changed
    launchedNow            \* the last step was a render that called confetti()

\* The variables of the valuation and scoring engine.
engineVars ==
    <<rendered, formState, today, calculations, technicalInput,
      technicalScore, tradeQualityInput, tradeQuality>>

\* The variables of the symbol lookup route.
routeVars == <<request, response, symbolMetadata>>

\* The variables of the page's persistence, besides formState and today.
pageVars == <<phase, defaults, pendingState, refs, storage, written>>

\* The variables of the celebration, besides formState, today and defaults.
celebrationVars ==
    <<resultsInView, hasTriggeredConfetti, hasUpdatedPlan, isInputFocused,
      lastPlanSnapshot, updates, prefersReducedMotion, launches, launchedNow>>

vars == <<engineVars, routeVars, pageVars, celebrationVars>>

\* The value of a memo or result that has not been computed.
NotComputed == [computed |-> FALSE]

\* No state update is queued.
NoUpdate == [queued |-> FALSE]

\* The page has written nothing to storage.
NothingWritten == [by |-> "none"]

\* No memo has been computed and no request handled.
Idle ==
    /\ rendered = "none"
    /\ calculations = NotComputed
    /\ technicalInput = NotComputed
    /\ technicalScore = NotComputed
    /\ tradeQualityInput = NotComputed
    /\ tradeQuality = NotComputed
    /\ request = NoSymbolParam
    /\ response = NotComputed
    /\ symbolMetadata = SYMBOL_METADATA
    /\ resultsInView = FALSE
    /\ hasTriggeredConfetti = FALSE
    /\ hasUpdatedPlan = FALSE
    /\ isInputFocused = FALSE
    /\ lastPlanSnapshot = NoItem
    /\ updates = <<>>
    /\ prefersReducedMotion = FALSE
    /\ launches = 0
    /\ launchedNow = FALSE

\* The page is not loaded; its window has the given storage item.
Unloaded(item) ==
    /\ formState = DefaultForm
    /\ today = FirstDay
    /\ phase = "unloaded"
    /\ defaults = DefaultForm
    /\ pendingState = NoUpdate
    /\ refs = FreshRefs
    /\ storage = item
    /\ written = NothingWritten

Init == Idle /\ Unloaded(NoItem)

\* A call evaluateTradeQuality(args).
EvaluateTradeQuality ==
    /\ rendered = "none"
    /\ \E args \in TradeQualityInputs :
          /\ tradeQualityInput' = args
          /\ tradeQuality' = evaluateTradeQuality(args)
    /\ rendered' = "tradeQuality"
    /\ UNCHANGED <<formState, today, calculations, technicalInput,
                   technicalScore, routeVars, pageVars,
                   celebrationVars>>

\* A render that computes the calculations memo from the form state.
RenderCalculations ==
    /\ rendered = "none"
    /\ \E input \in CalculationsInputs :
          /\ formState' = input[1]
          /\ today' = input[2]
          /\ calculations' = calculationsMemo(input[1], input[2])
    /\ rendered' = "calculations"
    /\ UNCHANGED <<technicalInput, technicalScore, tradeQualityInput,
                   tradeQuality, routeVars, pageVars,
                   celebrationVars>>

\* A render that computes the technicalScore memo from the form state.
RenderTechnicalScore ==
    /\ rendered = "none"
    /\ \E form \in TechnicalForms :
          /\ formState' = form
          /\ technicalInput' = technicalScoreArgs(form)
          /\ technicalScore' = evaluateTechnicalScore(technicalScoreArgs(form))
    /\ rendered' = "technicalScore"
    /\ UNCHANGED <<today, calculations, tradeQualityInput, tradeQuality,
                   routeVars, pageVars,
                   celebrationVars>>

\* A render that computes the sums and products of the calculations memo in
\* binary64, from a form state of whole numbers.
RenderCalculationsBinary64 ==
    /\ rendered = "none"
    /\ \E form \in WholeNumberForms :
          /\ formState' = form
          /\ calculations' = calculationsBinary64(form)
    /\ rendered' = "calculationsBinary64"
    /\ UNCHANGED <<today, technicalInput, technicalScore, tradeQualityInput,
                   tradeQuality, routeVars, pageVars,
                   celebrationVars>>

Next ==
    \/ EvaluateTradeQuality
    \/ RenderCalculations
    \/ RenderCalculationsBinary64
    \/ RenderTechnicalScore

Spec == Init /\ [][Next]_vars

\* A GET request to the symbol lookup route, handled to its response.  The
\* handler keeps nothing between requests, so one request is followed.
HandleGet ==
    /\ response = NotComputed
    /\ \E param \in SymbolRequests :
          /\ request' = param
          /\ response' = GET(param, symbolMetadata)
    /\ UNCHANGED <<symbolMetadata, engineVars, pageVars, celebrationVars>>

NextRoute == HandleGet

\* The memos and the route are left alone.
PageOnly ==
    UNCHANGED <<rendered, calculations, technicalInput, technicalScore,
                tradeQualityInput, tradeQuality, routeVars, celebrationVars>>

\* The page loads: the first render with the default form state, then the
\* hydration effect and the first run of the save effect.
Mount ==
    /\ phase = "unloaded"
    /\ \E day \in PageDays :
          LET initial == getDefaultFormState(day + 30)
              hydration == hydrationEffect(storage, initial)
          IN  /\ today' = day
              /\ defaults' = initial
              /\ formState' = initial
              /\ pendingState' =
                    IF hydration.setFormState
                    THEN [queued |-> TRUE, nextState |-> hydration.nextState]
                    ELSE NoUpdate
              /\ refs' = saveEffect(initial, [FreshRefs EXCEPT !.hasHydrated = TRUE])
              /\ phase' = IF hydration.setFormState THEN "mounted" ELSE "hydrated"
    /\ UNCHANGED <<storage, written>>
    /\ PageOnly

\* The re-render for the state the hydration effect queued, and the save
\* effect after it.
CommitHydration ==
    /\ phase = "mounted"
    /\ pendingState.queued
    /\ formState' = pendingState.nextState
    /\ refs' = saveEffect(pendingState.nextState, refs)
    /\ pendingState' = NoUpdate
    /\ phase' = "hydrated"
    /\ UNCHANGED <<today, defaults, storage, written>>
    /\ PageOnly

\* handleChange / handleDateChange: an input event, the re-render and the
\* save effect after it.
Change ==
    /\ phase \in {"hydrated", "edited"}
    /\ refs.nextTimerId <= MaxTimers
    /\ \E edit \in Edits :
          LET nextState == [formState EXCEPT ![edit[1]] = edit[2]]
          IN  /\ formState' = nextState
              /\ refs' = saveEffect(nextState, refs)
    /\ phase' = "edited"
    /\ UNCHANGED <<today, defaults, pendingState, storage, written>>
    /\ PageOnly

\* handleResetTechnicals, the re-render and the save effect after it.
ResetTechnicals ==
    /\ phase \in {"hydrated", "edited"}
    /\ refs.nextTimerId <= MaxTimers
    /\ LET nextState == [f \in FormFields |->
                            IF f \in TechnicalFields THEN <<>> ELSE formState[f]]
       IN  /\ formState' = nextState
           /\ refs' = saveEffect(nextState, refs)
    /\ phase' = "edited"
    /\ UNCHANGED <<today, defaults, pendingState, storage, written>>
    /\ PageOnly

\* handleReset, the re-render and the save effect after it.
Reset ==
    /\ phase \in {"hydrated", "edited"}
    /\ LET nextState == getResetFormState(today)
       IN  /\ storage' = JSONstringify(nextState)
           /\ written' = [by |-> "reset", form |-> nextState]
           /\ formState' = nextState
           /\ refs' = saveEffect(nextState, [refs EXCEPT !.skipNextSave = TRUE])
    /\ phase' = "edited"
    /\ UNCHANGED <<today, defaults, pendingState>>
    /\ PageOnly

\* A pending timer fires, STORAGE_DEBOUNCE_MS after it was set: it writes
\* the form state of the render that set it.  The re-render React queues
\* at mount is committed before that delay has passed.
TimerFires ==
    /\ phase \in {"hydrated", "edited"}
    /\ \E t \in refs.timers :
          /\ storage' = JSONstringify(t.form)
          /\ written' = [by |-> "timer", form |-> t.form]
          /\ refs' = [refs EXCEPT !.timers = refs.timers \ {t}]
    /\ UNCHANGED <<formState, today, defaults, pendingState, phase>>
    /\ PageOnly

\* The page is closed or reloaded: its component, refs and timers are gone;
\* storage stays.
Unload ==
    /\ phase \in {"hydrated", "edited"}
    /\ phase' = "unloaded"
    /\ refs' = FreshRefs
    /\ formState' = DefaultForm
    /\ today' = FirstDay
    /\ defaults' = DefaultForm
    /\ UNCHANGED <<pendingState, storage, written>>
    /\ PageOnly

NextStorage == Mount \/ CommitHydration \/ TimerFires \/ Unload

\* Saving and reloading: the page starts unloaded over a stored snapshot,
\* or loaded with an edited form state whose save is pending.
InitStorage ==
    /\ Idle
    /\ \/ \E item \in StoredItems : Unloaded(item)
       \/ \E form \in EditedForms :
             /\ formState = form
             /\ today = FirstDay
             /\ phase = "edited"
             /\ defaults = DefaultForm
             /\ pendingState = NoUpdate
             /\ refs = saveEffect(form,
                                  saveEffect(DefaultForm,
                                             [FreshRefs EXCEPT !.hasHydrated = TRUE]))
             /\ storage = NoItem
             /\ written = NothingWritten

SpecStorage == InitStorage /\ [][NextStorage]_vars

NextPage ==
    \/ Mount
    \/ CommitHydration
    \/ Change
    \/ ResetTechnicals
    \/ Reset
    \/ TimerFires
    \/ Unload

InitPage == Idle /\ \E item \in PageItems : Unloaded(item)

\* The page over its lifetime: loads, edits, resets, saves and reloads.
SpecPage == InitPage /\ [][NextPage]_vars

\* The celebration leaves the memos, the route and the persistence alone.
CelebrationOnly ==
    UNCHANGED <<rendered, today, technicalInput, technicalScore,
                tradeQualityInput, tradeQuality, routeVars, pageVars>>

\* The first render, with the default form state, and its effects: the
\* hydration effect may queue a stored plan, the plan-snapshot effect
\* records the first snapshot, and the confetti effect runs with
\* resultsInView still false.
MountCelebration ==
    /\ lastPlanSnapshot = NoItem
    /\ \E memo \in {calculationsMemo(formState, today)},
          plan \in {planSnapshotEffect(formState, lastPlanSnapshot)} :
          \E celebrate \in
                {confettiEffect(resultsInView, hasTriggeredConfetti,
                                isInputFocused, memo.annualizedReturn,
                                hasUpdatedPlan,
                                isDefaultPlan(formState, defaults),
                                prefersReducedMotion)} :
             /\ calculations' = memo
             /\ lastPlanSnapshot' = plan.lastPlanSnapshot
             /\ \E hydration \in
                      {<<>>} \cup {<<SetState("setFormState", form)>> :
                                      form \in CelebrationForms} :
                   updates' = hydration \o plan.updates \o celebrate.updates
             /\ launchedNow' = celebrate.confetti
             /\ launches' = launches + (IF celebrate.confetti THEN 1 ELSE 0)
    /\ UNCHANGED <<formState, defaults, resultsInView, hasTriggeredConfetti,
                   hasUpdatedPlan, isInputFocused, prefersReducedMotion>>
    /\ CelebrationOnly

\* The effects of a render that commits queued setter calls: the
\* plan-snapshot effect when the form state was set, the confetti effect
\* when one of its dependencies differs from the previous render.
RenderEffects(nextForm, formSet, memo, inView, triggered, updatedPlan, focused) ==
    \E plan \in {IF formSet THEN planSnapshotEffect(nextForm, lastPlanSnapshot)
                 ELSE [lastPlanSnapshot |-> lastPlanSnapshot,
                       updates |-> <<>>]},
       depsBefore \in
           {confettiDeps(calculations.annualizedReturn, hasTriggeredConfetti,
                         hasUpdatedPlan, isDefaultPlan(formState, defaults),
                         isInputFocused, resultsInView)},
       depsNow \in
           {confettiDeps(memo.annualizedReturn, triggered, updatedPlan,
                         isDefaultPlan(nextForm, defaults), focused, inView)} :
       \E celebrate \in
             {IF depsNow # depsBefore
              THEN confettiEffect(inView, triggered, focused,
                                  memo.annualizedReturn, updatedPlan,
                                  isDefaultPlan(nextForm, defaults),
                                  prefersReducedMotion)
              ELSE [confetti |-> FALSE, updates |-> <<>>]} :
          /\ lastPlanSnapshot' = plan.lastPlanSnapshot
          /\ updates' = plan.updates \o celebrate.updates
          /\ launchedNow' = celebrate.confetti
          /\ launches' = (IF plan.lastPlanSnapshot # lastPlanSnapshot
                          THEN 0 ELSE launches)
                         + (IF celebrate.confetti THEN 1 ELSE 0)

\* A render that commits the queued setter calls, and its effects.
RenderCelebration ==
    /\ lastPlanSnapshot # NoItem
    /\ updates # <<>>
    /\ \E nextForm \in {LatestState(updates, "setFormState", formState)},
          inView \in {LatestState(updates, "setResultsInView", resultsInView)},
          triggered \in {LatestState(updates, "setHasTriggeredConfetti",
                                     hasTriggeredConfetti)},
          updatedPlan \in {LatestState(updates, "setHasUpdatedPlan",
                                       hasUpdatedPlan)},
          focused \in {LatestState(updates, "setIsInputFocused",
                                   isInputFocused)} :
          \E memo \in {calculationsMemo(nextForm, today)} :
             /\ formState' = nextForm
             /\ calculations' = memo
             /\ resultsInView' = inView
             /\ hasTriggeredConfetti' = triggered
             /\ hasUpdatedPlan' = updatedPlan
             /\ isInputFocused' = focused
             /\ RenderEffects(nextForm,
                              \E i \in 1..Len(updates) :
                                  updates[i].setter = "setFormState",
                              memo, inView, triggered, updatedPlan, focused)
    /\ UNCHANGED <<defaults, prefersReducedMotion>>
    /\ CelebrationOnly

\* An event of the mounted page, once React has rendered what was queued:
\* it queues the given setter calls.
CelebrationEvent(calls) ==
    /\ lastPlanSnapshot # NoItem
    /\ updates = <<>>
    /\ updates' = calls
    /\ launchedNow' = FALSE
    /\ UNCHANGED <<formState, calculations, defaults, resultsInView,
                   hasTriggeredConfetti, hasUpdatedPlan, isInputFocused,
                   lastPlanSnapshot, prefersReducedMotion, launches>>
    /\ CelebrationOnly

\* handleChange, handleDateChange or handleReset sets the form state.
ChangePlan ==
    \E form \in CelebrationForms :
        CelebrationEvent(<<SetState("setFormState", form)>>)

\* handleFocusIn on an input of the form.
FocusIn == CelebrationEvent(<<SetState("setIsInputFocused", TRUE)>>)

\* handleFocusOut from the focused input to a target outside the form's
\* inputs.
FocusOut ==
    /\ isInputFocused
    /\ CelebrationEvent(<<SetState("setIsInputFocused", FALSE)>>)

\* The IntersectionObserver callback.
Intersect ==
    \E inView \in BOOLEAN :
        CelebrationEvent(<<SetState("setResultsInView", inView)>>)

\* The user changes the reduced-motion preference of the system.
MotionPreference ==
    /\ prefersReducedMotion' = ~prefersReducedMotion
    /\ launchedNow' = FALSE
    /\ UNCHANGED <<formState, calculations, defaults, resultsInView,
                   hasTriggeredConfetti, hasUpdatedPlan, isInputFocused,
                   lastPlanSnapshot, updates, launches>>
    /\ CelebrationOnly

NextCelebration ==
    \/ MountCelebration
    \/ RenderCelebration
    \/ ChangePlan
    \/ FocusIn
    \/ FocusOut
    \/ Intersect
    \/ MotionPreference

\* The page that celebrates: renders, edits, focus and scrolling.
SpecCelebration == Init /\ [][NextCelebration]_vars

\* The page with its scheduling: React commits the re-render a mount effect
\* queued, and the browser runs the callback of a timer that stays pending.
\* Nothing obliges the user to edit, reset or leave.
SpecPageLive ==
    /\ InitPage
    /\ [][NextPage]_vars
    /\ WF_vars(CommitHydration)
    /\ WF_vars(TimerFires)

\* The symbol lookup route serving requests.
SpecRoute == Init /\ [][NextRoute]_vars

(* ---------------------------------------------------------------------- *)
(* The band table of the trade-quality scorer, as specified                *)
(* ---------------------------------------------------------------------- *)
BandPremiumPerDay(v) ==
    IF RLt(v, Rat(5, 100)) THEN -15
    ELSE IF RLt(v, Rat(12, 100)) THEN 0
    ELSE IF RLe(v, Rat(20, 100)) THEN 10
    ELSE 15

BandDownside(v) ==
    IF RLt(v, Num(2)) THEN -20
    ELSE IF RLe(v, Num(5)) THEN 0
    ELSE IF RLe(v, Num(8)) THEN 10
    ELSE 15

BandUpside(v) ==
    IF RLt(v, Num(1)) THEN -10
    ELSE IF RLe(v, Num(3)) THEN -5
    ELSE IF RLe(v, Num(7)) THEN 5
    ELSE 10

BandTotalReturn(v) ==
    IF RLt(v, Num(8)) THEN -10
    ELSE IF RLt(v, Num(12)) THEN 0
    ELSE IF RLe(v, Num(20)) THEN 10
    ELSE IF RLe(v, Num(35)) THEN 15
    ELSE 20

BandImpliedVolatility(v) ==
    IF RLt(v, Num(15)) THEN -8
    ELSE IF RLe(v, Num(25)) THEN 0
    ELSE IF RLe(v, Num(45)) THEN 10
    ELSE IF RLe(v, Num(65)) THEN 5
    ELSE -5

\* 50 plus the five deltas of the band table.
BandScore(args) ==
    50 + BandPremiumPerDay(args.premiumPerDayPct)
       + BandDownside(args.downsideToBreakEvenPct)
       + BandUpside(args.upsideCapPct)
       + BandTotalReturn(args.totalReturnPct)
       + BandImpliedVolatility(args.impliedVolatilityPct)

ClampTo(lo, hi, x) == IF x < lo THEN lo ELSE IF x > hi THEN hi ELSE x

(* ---------------------------------------------------------------------- *)
(* Claims                                                                  *)
(* ---------------------------------------------------------------------- *)
\* C1: for every input tuple the score of evaluateTradeQuality is 50 plus
\* the five deltas of the band table (premium/day, downside cushion, upside
\* room, total return, implied volatility), clamped to [0,100], and nothing
\* else is added.
C1_ScoreIsBasePlusFiveDeltas ==
    rendered = "tradeQuality"
        => tradeQuality.score = ClampTo(0, 100, BandScore(tradeQualityInput))

\* C2: every trade-quality score is an integer in 0..100, and a technical
\* score that is present has its score in 0..100.
C2_ScoresInRange ==
    /\ rendered = "tradeQuality" => tradeQuality.score \in 0..100
    /\ rendered = "calculations" => calculations.tradeQuality.score \in 0..100
    /\ (rendered = "technicalScore" /\ technicalScore # Null)
          => technicalScore.score \in 0..100

\* C2 witness: a trade-quality score whose unclamped sum exceeds 100.
C2_Witness ==
    /\ rendered = "tradeQuality"
    /\ tradeQuality.rawScore > 100
    /\ tradeQuality.score = 100

\* C3: the implied volatility passed to the trade-quality scorer is 30 when
\* the raw string does not parse to a finite number, otherwise the parsed
\* value clamped to [5,100]; it is never outside [5,100].
C3_ImpliedVolatilityNormalized ==
    rendered = "calculations" =>
        LET parsed == parseFloat(formState.impliedVolatility)
            iv == calculations.tradeQualityInput.impliedVolatilityPct
        IN  /\ iv = calculations.safeImpliedVolatility
            /\ ~IsFinite(parsed) => iv = Num(30)
            /\ IsFinite(parsed) =>
                  iv = (IF RLt(parsed, Num(5)) THEN Num(5)
                        ELSE IF RGt(parsed, Num(100)) THEN Num(100)
                        ELSE parsed)
            /\ RLe(Num(5), iv)
            /\ RLe(iv, Num(100))

\* C3 witness: a raw string that parses to more than 100 and is clamped to 100.
C3_Witness ==
    /\ rendered = "calculations"
    /\ RGt(parseFloat(formState.impliedVolatility), Num(100))
    /\ IsFinite(parseFloat(formState.impliedVolatility))
    /\ calculations.safeImpliedVolatility = Num(100)

\* The label thresholds on a result of evaluateTradeQuality.
LabelMatchesScore(q) ==
    /\ q.label = "Strong" <=> q.score >= 80
    /\ q.label = "Reasonable" <=> (65 <= q.score /\ q.score < 80)
    /\ q.label = "Borderline" <=> (50 <= q.score /\ q.score < 65)
    /\ q.label = "Weak" <=> q.score < 50

\* C4: the label is a function of the clamped score alone: Strong iff
\* score >= 80, Reasonable iff 65 <= score < 80, Borderline iff
\* 50 <= score < 65, Weak iff score < 50; 80 is Strong and 79 is Reasonable.
C4_LabelFromScore ==
    /\ rendered = "tradeQuality" => LabelMatchesScore(tradeQuality)
    /\ rendered = "calculations" => LabelMatchesScore(calculations.tradeQuality)
    /\ tradeQualityLabel(80) = "Strong"
    /\ tradeQualityLabel(79) = "Reasonable"

\* C4 witness: a score of exactly 80, labelled Strong.
C4_Witness ==
    /\ rendered = "tradeQuality"
    /\ tradeQuality.score = 80
    /\ tradeQuality.label = "Strong"

\* The risk flag of a result q of evaluateTradeQuality on arguments a.
RiskFlagMatches(a, q) ==
    /\ q.hasElevatedRiskWarning
          <=> (\/ RGt(a.premiumPerDayPct, Rat(20, 100))
               \/ RGt(a.impliedVolatilityPct, Num(45)))
    /\ a.premiumPerDayPct = Rat(25, 100) =>
          /\ q.hasElevatedRiskWarning
          /\ \E i \in 1..Len(q.factorNotes) :
                q.factorNotes[i] =
                    [impact |-> 15, note |-> "Premium/day is very high"]
          /\ q.rawScore - 15 = 50 + SumImpacts(
                 downsideChain(a.downsideToBreakEvenPct).calls
                 \o upsideChain(a.upsideCapPct).calls
                 \o totalReturnChain(a.totalReturnPct).calls
                 \o impliedVolatilityChain(a.impliedVolatilityPct).calls
                 \o secondTotalReturnChain(a.totalReturnPct).calls)

\* C5: hasElevatedRiskWarning is true iff premiumPerDayPct > 0.20 or
\* impliedVolatilityPct > 45; premiumPerDayPct = 0.25 adds +15 and sets it.
C5_RiskFlag ==
    /\ rendered = "tradeQuality" =>
          RiskFlagMatches(tradeQualityInput, tradeQuality)
    /\ rendered = "calculations" =>
          RiskFlagMatches(calculations.tradeQualityInput,
                          calculations.tradeQuality)

\* C5 witness: premiumPerDayPct = 0.25 with implied volatility at most 45,
\* and the flag set.
C5_Witness ==
    /\ rendered = "tradeQuality"
    /\ tradeQualityInput.premiumPerDayPct = Rat(25, 100)
    /\ RLe(tradeQualityInput.impliedVolatilityPct, Num(45))
    /\ tradeQuality.hasElevatedRiskWarning

\* The addFactor entries of the five factors of the band table, in
\* evaluation order.
FiveFactors(a) ==
    premiumPerDayChain(a.premiumPerDayPct).calls
    \o downsideChain(a.downsideToBreakEvenPct).calls
    \o upsideChain(a.upsideCapPct).calls
    \o totalReturnChain(a.totalReturnPct).calls
    \o impliedVolatilityChain(a.impliedVolatilityPct).calls

\* The index, outside the set skip, of the entry of fs with the largest
\* absolute impact; the earliest one among equals.
LargestIndex(fs, skip) ==
    CHOOSE i \in (1..Len(fs)) \ skip :
        \A j \in (1..Len(fs)) \ skip :
            \/ Abs(fs[j].impact) < Abs(fs[i].impact)
            \/ Abs(fs[j].impact) = Abs(fs[i].impact) /\ i <= j

\* The notes are the descriptions of the (at most two) entries of fs with
\* the largest absolute impact, in decreasing order, equals in order of fs.
NotesAreTopTwo(notes, fs) ==
    /\ Len(notes) <= 2
    /\ Len(notes) = (IF Len(fs) < 2 THEN Len(fs) ELSE 2)
    /\ Len(fs) >= 1 => notes[1] = fs[LargestIndex(fs, {})].note
    /\ Len(fs) >= 2 =>
          notes[2] = fs[LargestIndex(fs, {LargestIndex(fs, {})})].note

\* C6: the notes are at most two, the descriptions of the two factors with
\* the largest absolute delta among the factors that contributed a non-zero
\* delta, in decreasing order of absolute delta, equal deltas in evaluation
\* order; a neutral factor never appears.
C6_NotesAreTopTwoFactors ==
    rendered = "tradeQuality" =>
        NotesAreTopTwo(tradeQuality.notes, FiveFactors(tradeQualityInput))

\* C7: evaluateTechnicalScore returns null iff RSI is absent, or ADX is
\* absent, or the three moving averages are all absent, or stockPrice <= 0;
\* otherwise it returns a score, a grade and notes.
C7_NullIffUnavailable ==
    rendered = "technicalScore" =>
        LET a == technicalInput
            absent == \/ a.rsi = Null
                      \/ a.adx = Null
                      \/ (a.ma20 = Null /\ a.ma50 = Null /\ a.ma200 = Null)
                      \/ RLe(a.stockPrice, Num(0))
        IN  /\ technicalScore = Null <=> absent
            /\ ~absent =>
                  /\ {"score", "grade", "notes"} \subseteq DOMAIN technicalScore
                  /\ technicalScore.score \in Int
                  /\ technicalScore.grade \in {"A", "B", "C", "D", "F"}
                  /\ Len(technicalScore.notes) >= 2

\* C7 witness: RSI supplied, ADX absent, a moving average present and a
\* positive price; the result is null.
C7_Witness ==
    /\ rendered = "technicalScore"
    /\ technicalInput.rsi # Null
    /\ technicalInput.adx = Null
    /\ technicalInput.ma50 # Null
    /\ RGt(technicalInput.stockPrice, Num(0))
    /\ technicalScore = Null

\* C8: for non-negative stockPrice, strikePrice, premium and shares,
\* maxProfitPerShare = strikePrice - stockPrice + premium +
\* dividendPerShareTotal, with dividendPerShareTotal = dividendPerShare *
\* dividendsExpected, and maxProfitTotal = maxProfitPerShare * shares.
C8_MaxProfit ==
    rendered = "calculations" =>
        LET c == calculations
        IN  (/\ RGe(c.safeStockPrice, Num(0))
             /\ RGe(c.safeStrikePrice, Num(0))
             /\ RGe(c.safePremium, Num(0))
             /\ RGe(c.safeShares, Num(0)))
            => /\ c.dividendPerShareTotal
                    = RMul(c.safeDividendPerShare, c.safeDividendsExpected)
               /\ c.maxProfitPerShare
                    = RAdd(RAdd(RSub(c.safeStrikePrice, c.safeStockPrice),
                                c.safePremium),
                           c.dividendPerShareTotal)
               /\ c.maxProfitTotal = RMul(c.maxProfitPerShare, c.safeShares)

\* C8 witness: a plan with shares, a premium and dividends whose maximum
\* profit is positive.
C8_Witness ==
    /\ rendered = "calculations"
    /\ RGt(calculations.safeShares, Num(1))
    /\ RGt(calculations.safePremium, Num(0))
    /\ RGt(calculations.dividendPerShareTotal, Num(0))
    /\ RGt(calculations.safeStockPrice, Num(0))
    /\ RGt(calculations.maxProfitTotal, calculations.maxProfitPerShare)

\* The numbers of the calculations memo.
CalculatedNumbers(c) ==
    {c.safeStockPrice, c.safeStrikePrice, c.safePremium, c.safeDividendPerShare,
     c.safeShares, c.safeImpliedVolatility, c.safeDividendsExpected,
     c.daysUntilExpiration, c.dividendPerShareTotal, c.grossCost, c.netCost,
     c.netCostPerShare, c.premiumTotal, c.dividendsTotal, c.maxProfitPerShare,
     c.maxProfitTotal, c.breakevenPrice, c.premiumPct, c.premiumPerDayPct,
     c.downsideToBreakEvenPct, c.upsideCapValue, c.upsideCapPct, c.totalReturn,
     c.annualizedReturn}

\* C9: every division is guarded: with stockPrice <= 0, totalReturn,
\* premiumPct, upsideCapPct and downsideToBreakEvenPct are 0; with
\* daysUntilExpiration = 0, premiumPerDayPct and annualizedReturn are 0; no
\* input makes the engine divide by zero (every result is finite).
C9_DivisionsGuarded ==
    rendered = "calculations" =>
        LET c == calculations
        IN  /\ RLe(c.safeStockPrice, Num(0)) =>
                  /\ c.totalReturn = Num(0)
                  /\ c.premiumPct = Num(0)
                  /\ c.upsideCapPct = Num(0)
                  /\ c.downsideToBreakEvenPct = Num(0)
            /\ c.daysUntilExpiration = Num(0) =>
                  /\ c.premiumPerDayPct = Num(0)
                  /\ c.annualizedReturn = Num(0)
            /\ \A x \in CalculatedNumbers(c) : IsFinite(x)

\* C9 witness: stockPrice 0 with a positive strike and premium, and no days
\* left; the ratios are 0.
C9_Witness ==
    /\ rendered = "calculations"
    /\ calculations.safeStockPrice = Num(0)
    /\ RGt(calculations.safeStrikePrice, Num(0))
    /\ RGt(calculations.safePremium, Num(0))
    /\ calculations.daysUntilExpiration = Num(0)
    /\ calculations.totalReturn = Num(0)
    /\ calculations.annualizedReturn = Num(0)

\* The inputs of scenario A.
ScenarioA(c) ==
    /\ c.safeStockPrice = Num(95)
    /\ c.safeStrikePrice = Num(105)
    /\ c.safePremium = Rat(275, 100)
    /\ c.safeDividendPerShare = Rat(25, 100)
    /\ c.safeDividendsExpected = Num(1)
    /\ c.safeShares = Num(100)
    /\ c.daysUntilExpiration = Num(30)

\* C10 as stated: stockPrice=95, strikePrice=105, premium=2.75,
\* dividendPerShare=0.25, dividendsExpected=1, shares=100,
\* daysUntilExpiration=30 yield dividendPerShareTotal=0.25,
\* maxProfitPerShare=12.75, maxProfitTotal=1275, breakevenPrice=91.75,
\* totalReturn=12.75/95 (0.13421 to five places) and
\* annualizedReturn=totalReturn*365/30 (1.6329 to four places).
C10_ScenarioA_Stated ==
    (rendered = "calculations" /\ ScenarioA(calculations)) =>
        LET c == calculations
        IN  /\ c.dividendPerShareTotal = Rat(25, 100)
            /\ c.maxProfitPerShare = Rat(1275, 100)
            /\ c.maxProfitTotal = Num(1275)
            /\ c.breakevenPrice = Rat(9175, 100)
            /\ c.totalReturn = Rat(1275, 9500)
            /\ ToFixed(c.totalReturn, 5) = 13421
            /\ c.annualizedReturn = Rat(1275 * 365, 9500 * 30)
            /\ ToFixed(c.annualizedReturn, 4) = 16329

\* C10 (amended): the inputs of scenario A yield dividendPerShareTotal=0.25,
\* maxProfitPerShare=13, maxProfitTotal=1300, breakevenPrice=92,
\* totalReturn=13/95 (0.13684 to five places) and
\* annualizedReturn=totalReturn*365/30 (1.6649 to four places).
C10_ScenarioA ==
    (rendered = "calculations" /\ ScenarioA(calculations)) =>
        LET c == calculations
        IN  /\ c.dividendPerShareTotal = Rat(25, 100)
            /\ c.maxProfitPerShare = Num(13)
            /\ c.maxProfitTotal = Num(1300)
            /\ c.breakevenPrice = Num(92)
            /\ c.totalReturn = Rat(13, 95)
            /\ ToFixed(c.totalReturn, 5) = 13684
            /\ c.annualizedReturn = RMul(c.totalReturn, Rat(365, 30))
            /\ ToFixed(c.annualizedReturn, 4) = 16649

\* C10 witness: the calculations memo computed on the inputs of scenario A.
C10_Witness ==
    /\ rendered = "calculations"
    /\ ScenarioA(calculations)
    /\ formState.stockPrice = <<"9", "5">>
    /\ formState.premium = <<"2", ".", "7", "5">>

\* The grades from worst to best.
GradeRank(grade) ==
    CASE grade = "F" -> 0
      [] grade = "D" -> 1
      [] grade = "C" -> 2
      [] grade = "B" -> 3
      [] grade = "A" -> 4

\* C11: the technical grade is determined by the clamped score alone: A
\* exactly when the score is at least 85, B when 70 <= score < 85, C when
\* 55 <= score < 70, D when 40 <= score < 55, F when score < 40; and no
\* lower score is graded better than the score that was returned.
C11_GradeFromScore ==
    (rendered = "technicalScore" /\ technicalScore # Null) =>
        LET score == technicalScore.score
            grade == technicalScore.grade
        IN  /\ score \in 0..100
            /\ grade \in {"A", "B", "C", "D", "F"}
            /\ (grade = "A") <=> (score >= 85)
            /\ (grade = "B") <=> (score >= 70 /\ score < 85)
            /\ (grade = "C") <=> (score >= 55 /\ score < 70)
            /\ (grade = "D") <=> (score >= 40 /\ score < 55)
            /\ (grade = "F") <=> (score < 40)
            /\ \A lower \in 0..score :
                    GradeRank(getTechnicalGrade(lower)) <= GradeRank(grade)

\* C11 witness: a technical score of exactly 85, graded A.
C11_Witness ==
    /\ rendered = "technicalScore"
    /\ technicalScore # Null
    /\ technicalScore.score = 85
    /\ technicalScore.grade = "A"

\* The normalized value the calculations memo holds for a core field.
SafeValue(c, field) ==
    CASE field = "stockPrice" -> c.safeStockPrice
      [] field = "strikePrice" -> c.safeStrikePrice
      [] field = "premium" -> c.safePremium
      [] field = "dividendPerShare" -> c.safeDividendPerShare
      [] field = "dividendsExpected" -> c.safeDividendsExpected
      [] field = "shares" -> c.safeShares

\* The parse the calculations memo applies to a core field.
ParsedCore(form, field) ==
    IF field \in {"dividendsExpected", "shares"}
    THEN parseInt(form[field])
    ELSE parseFloat(form[field])

\* The argument the technicalScore memo passes for a technical field.
NullableValue(args, field) ==
    CASE field = "atr14" -> args.atr
      [] field = "adx14" -> args.adx
      [] field = "rsi14" -> args.rsi
      [] field = "ma20" -> args.ma20
      [] field = "ma50" -> args.ma50
      [] field = "ma200" -> args.ma200

HasNoDigit(raw) == \A i \in 1..Len(raw) : raw[i] \notin Digits

\* C15: parse failures never surface.  A core numeric field whose raw
\* string is empty or does not parse to a finite number is normalized to 0
\* (and every normalized core value is finite); a technical field whose raw
\* string is empty, whitespace-only or does not parse to a finite number is
\* passed as null, never as 0.
C15_ParseFailuresNormalized ==
    /\ rendered = "calculations" =>
            \A field \in CoreNumericFields :
                /\ IsFinite(SafeValue(calculations, field))
                /\ (formState[field] = <<>>
                        \/ HasNoDigit(formState[field])
                        \/ ~IsFinite(ParsedCore(formState, field)))
                    => SafeValue(calculations, field) = Num(0)
    /\ rendered = "technicalScore" =>
            \A field \in TechnicalFields :
                (Trim(formState[field]) = <<>>
                    \/ HasNoDigit(formState[field])
                    \/ ~IsFinite(parseFloat(formState[field])))
                => /\ NullableValue(technicalInput, field) = Null
                   /\ NullableValue(technicalInput, field) # Num(0)

\* C15 witness: a technical field that holds a blank and a letter is passed as
\* null.
C15_Witness ==
    /\ rendered = "technicalScore"
    /\ formState.rsi14 = <<" ", "x">>
    /\ technicalInput.rsi = Null

\* The calendar day an expiration string names.
ExpirationDay(s) == DigitsValue(s, Len(s))

\* C16: calculateDaysUntilExpiration returns a non-negative integer
\* calendar-day span: 0 when the expiration string does not parse as a
\* date, 0 when the expiration is today or in the past, and otherwise
\* exactly the number of calendar days from today to the expiration,
\* whatever the length (23, 24 or 25 hours) of the local days in between.
C16_CalendarDaySpan ==
    rendered = "calculations" =>
        LET s == formState.expirationDate
        IN  calculations.daysUntilExpiration =
                IF ~IsDateString(s) THEN Num(0)
                ELSE IF ExpirationDay(s) <= today THEN Num(0)
                ELSE Num(ExpirationDay(s) - today)

MaPoints(stockPrice, ma, above) ==
    IF ma = Null THEN 0 ELSE IF RGt(stockPrice, ma) THEN above ELSE 2

\* The alignment points: only when all three moving averages are present.
AlignmentPoints(ma20, ma50, ma200) ==
    IF ma20 = Null \/ ma50 = Null \/ ma200 = Null THEN 0
    ELSE IF RGt(ma20, ma50) /\ RGt(ma50, ma200) THEN 11
    ELSE IF RLt(ma20, ma50) /\ RLt(ma50, ma200) THEN 0
    ELSE 5

\* C19: the moving-average component credits each of ma20, ma50, ma200 that
\* is present with +6, +8, +10 when the stock price is strictly above it
\* and +2 otherwise; only when all three are present it adds +11 for
\* ma20 > ma50 > ma200, +0 for ma20 < ma50 < ma200 and +5 for every other
\* ordering, equalities included; the sum is capped at 35 and lies in 0..35.
C19_MovingAverageComponent ==
    (rendered = "technicalScore" /\ technicalScore # Null) =>
        LET a == technicalInput
            sum == MaPoints(a.stockPrice, a.ma20, 6)
                   + MaPoints(a.stockPrice, a.ma50, 8)
                   + MaPoints(a.stockPrice, a.ma200, 10)
                   + AlignmentPoints(a.ma20, a.ma50, a.ma200)
        IN  /\ technicalScore.maScore = IF sum < 35 THEN sum ELSE 35
            /\ technicalScore.maScore \in 0..35

\* C19 witness: three moving averages bullishly aligned under the stock
\* price, worth 6 + 8 + 10 + 11 = 35.
C19_Witness ==
    /\ rendered = "technicalScore"
    /\ technicalScore # Null
    /\ technicalInput.ma20 # Null
    /\ technicalInput.ma50 # Null
    /\ technicalInput.ma200 # Null
    /\ RGt(technicalInput.ma20, technicalInput.ma50)
    /\ RGt(technicalInput.ma50, technicalInput.ma200)
    /\ RGt(technicalInput.stockPrice, technicalInput.ma20)
    /\ technicalScore.maScore = 35

\* RSI readings the rendered one is compared with: each band edge, its
\* neighbours and the ends of the 0..100 range.
RsiSamples ==
    {0, 10, 19, 20, 29, 30, 44, 45, 50, 60, 61, 70, 71, 80, 81, 100}

\* C20: the RSI component is 30 exactly when 45 <= RSI <= 60; it never
\* increases as the RSI moves away from that band in either direction; it
\* lies in 0..30; and it reaches its floor (6 above 80, 8 below 20) only at
\* the extremes.
C20_RsiComponent ==
    (rendered = "technicalScore" /\ technicalScore # Null) =>
        LET rsi == technicalInput.rsi
            score == technicalScore.rsiScore
        IN  /\ score \in 0..30
            /\ (score = 30) <=> (RGe(rsi, Num(45)) /\ RLe(rsi, Num(60)))
            /\ (score = 6) <=> RGt(rsi, Num(80))
            /\ (score = 8) <=> RLt(rsi, Num(20))
            /\ score >= 6
            /\ \A b \in RsiSamples :
                    LET other == rsiComponent(Num(b)).score
                    IN  /\ (RLe(rsi, Num(b)) /\ b <= 45) => score <= other
                        /\ (RLe(Num(b), rsi) /\ RLe(rsi, Num(45)))
                                => other <= score
                        /\ (RGe(rsi, Num(b)) /\ b >= 60) => score <= other
                        /\ (RGe(Num(b), rsi) /\ RGe(rsi, Num(60)))
                                => other <= score

\* C20 witness: an RSI in the oversold-bounce band, scored 14 between the
\* floor of 8 below it and the 18 of the band above it.
C20_Witness ==
    /\ rendered = "technicalScore"
    /\ technicalScore # Null
    /\ technicalInput.rsi = Num(29)
    /\ technicalScore.rsiScore = 14

\* C18: the GET handler trims and upper-cases the symbol parameter and
\* returns exactly one of: status 400 with an error when the parameter is
\* missing or the resulting symbol is empty; status 404 with an error when
\* the symbol is not a key of the fixed table; otherwise a success response
\* carrying the upper-cased symbol with that entry's companyName and
\* sector.  The table is never modified.
C18_SymbolLookup ==
    /\ symbolMetadata = SYMBOL_METADATA
    /\ response # NotComputed =>
        LET symbol == IF request.has THEN toUpperCase(Trim(request.value))
                      ELSE <<>>
            keys == {e.symbol : e \in SYMBOL_METADATA}
        IN  /\ response.status \in {200, 400, 404}
            /\ (response.status = 400) <=> (~request.has \/ symbol = <<>>)
            /\ (response.status = 404) <=> (symbol # <<>> /\ symbol \notin keys)
            /\ (response.status = 200) <=> (symbol \in keys)
            /\ response.status = 400 =>
                    response = [status |-> 400, error |-> "Symbol is required."]
            /\ response.status = 404 =>
                    /\ DOMAIN response = {"status", "error"}
                    /\ response.error # ""
            /\ response.status = 200 =>
                    \E e \in SYMBOL_METADATA :
                        /\ e.symbol = symbol
                        /\ response = [status |-> 200, symbol |-> symbol,
                                        companyName |-> e.companyName,
                                        sector |-> e.sector]

\* C18 witness: a lower-case symbol between blanks is answered with the
\* entry of its upper-case key.
C18_Witness ==
    /\ request = SymbolParam(<<" ", "b", "r", "k", ".", "b", " ">>)
    /\ response.status = 200
    /\ response.symbol = <<"B", "R", "K", ".", "B">>
    /\ response.companyName = "Berkshire Hathaway Inc."
    /\ response.sector = "Financials"

\* The page has just been hydrated from the snapshot its own save wrote.
ReloadedOwnSave ==
    /\ phase = "hydrated"
    /\ written # NothingWritten
    /\ storage = JSONstringify(written.form)
    /\ refs.timers # {}
    /\ \A t \in refs.timers : t.id = 2

\* C12 as stated: for every form state all of whose fields are strings at
\* save time, writing it as JSON to the storage key and then running the
\* load-time hydration yields a form state with identical values in every
\* field.
C12_RoundTrip_Stated ==
    ReloadedOwnSave => formState = written.form

\* C12 (amended): saving a form state and hydrating from what was saved
\* returns every numeric and technical field unchanged; the symbol comes
\* back upper-cased and cut to ten characters, and the expiration date
\* comes back only if it parses as a date, else the default of the load
\* takes its place.  So the form state comes back identical when its
\* symbol is upper-case and at most ten characters long and its
\* expiration date parses.
C12_RoundTrip ==
    ReloadedOwnSave =>
        LET saved == written.form
        IN  /\ \A f \in numberFields : formState[f] = saved[f]
            /\ formState.symbol =
                    SubSeq(toUpperCase(saved.symbol), 1,
                           IF Len(saved.symbol) < 10 THEN Len(saved.symbol)
                           ELSE 10)
            /\ formState.expirationDate =
                    IF IsDateString(saved.expirationDate)
                    THEN saved.expirationDate
                    ELSE defaults.expirationDate
            /\ (/\ toUpperCase(saved.symbol) = saved.symbol
                /\ Len(saved.symbol) <= 10
                /\ IsDateString(saved.expirationDate))
                => formState = saved

\* C12 witness: a form state whose stock price is not a number was saved
\* and the page, reloaded a day later, shows it again.
C12_Witness ==
    /\ ReloadedOwnSave
    /\ today # FirstDay
    /\ written.form.stockPrice = <<" ", "0", "x">>
    /\ formState = written.form
    /\ formState # defaults

\* The page has just been hydrated from the item it was loaded over.
HydratedFromItem ==
    /\ phase = "hydrated"
    /\ written = NothingWritten

\* C13: hydration repairs the stored snapshot field by field.  For each
\* numeric or technical field a stored string is taken unchanged, a stored
\* finite number is converted to its string, and any other stored value
\* (missing, null, boolean, object, non-finite) leaves the field at its
\* default; expirationDate is taken only when it is a string that parses as
\* a date; a snapshot that is not parseable JSON results in exactly the
\* default form state.  Each field is settled by its own stored value, so a
\* bad value in one field never discards another field's valid value.
C13_FieldByFieldRepair ==
    HydratedFromItem =>
        /\ storage.kind = "invalid" => formState = defaults
        /\ storage.kind = "json" =>
            /\ \A f \in numberFields :
                    LET value == Property(storage.value, f)
                    IN  formState[f] =
                            IF value.type = "string" THEN value.value
                            ELSE IF value.type = "number"
                                    /\ value.number \notin {NaN, PosInf, NegInf}
                            THEN NumberToString(value.number)
                            ELSE defaults[f]
            /\ LET value == Property(storage.value, "expirationDate")
               IN  formState.expirationDate =
                       IF value.type = "string" /\ IsDateString(value.value)
                       THEN value.value
                       ELSE defaults.expirationDate

\* C13 witness: a snapshot whose stockPrice is the number -0.5 and whose
\* other fields are valid strings hydrates to the string "-0.5" next to
\* the other stored values.
C13_Witness ==
    /\ HydratedFromItem
    /\ storage = SnapshotWith("stockPrice", JNumber(Rat(-5, 10)))
    /\ formState = [SnapshotForm EXCEPT !.stockPrice = <<"-", "0", ".", "5">>]
    /\ formState.strikePrice # defaults.strikePrice

\* C14: over any sequence of form changes at most one save timer is
\* pending at any time; every form change cancels the timer that was
\* pending before it; whenever a timer fires, the value written to storage
\* is the form state of the most recent change; a write for a superseded
\* form state never reaches storage.
C14_DebouncedSave ==
    [][/\ Cardinality(refs'.timers) <= 1
       /\ formState' # formState => refs'.timers \cap refs.timers = {}
       /\ \A t \in refs'.timers : t.form = formState'
       /\ written' # written =>
            /\ written'.form = formState'
            /\ storage' = JSONstringify(formState')]_vars

\* C14 witness: in one load of the page three timers were set, the last one
\* fired, and storage holds the form state of the last change.
C14_Witness ==
    /\ phase = "edited"
    /\ refs.nextTimerId >= 4
    /\ refs.timers = {}
    /\ written # NothingWritten
    /\ written.by = "timer"
    /\ written.form = formState
    /\ storage = JSONstringify(formState)
    /\ formState.symbol = <<"v">>
    /\ formState.stockPrice = <<"1", "0", "0">>

\* The three texts of the alignment note.
AlignmentNotes ==
    {Note("Moving averages are bullishly aligned (20 > 50 > 200)"),
     Note("Moving averages are bearishly aligned (20 < 50 < 200)"),
     Note("Moving averages show mixed trend alignment")}

\* C21: whenever a technical score is present, its notes list has at most
\* four entries in the order trend (ADX), momentum (RSI), alignment (moving
\* averages), volatility (ATR); it holds one note for each component that
\* contributed to the score and none for a component whose inputs were
\* absent (no volatility note without ATR).
C21_NotesPerComponent ==
    (rendered = "technicalScore" /\ technicalScore # Null) =>
        LET a == technicalInput
            notes == technicalScore.notes
            maContributed == technicalScore.maScore > 0
            atrPresent == a.atr # Null
        IN  /\ Len(notes) <= 4
            /\ Len(notes) = 2 + (IF maContributed THEN 1 ELSE 0)
                               + (IF atrPresent THEN 1 ELSE 0)
            /\ notes[1] = adxComponent(a.adx).note
            /\ notes[2] = rsiComponent(a.rsi).note
            /\ maContributed => notes[3] \in AlignmentNotes
            /\ atrPresent =>
                    notes[Len(notes)] = atrComponent(a.stockPrice, a.atr).note

\* C22: for every raw dividendsExpected string the normalized
\* dividendsExpected is a non-negative integer (0 when the string does not
\* parse), so dividendPerShareTotal is never negative when dividendPerShare
\* is non-negative.
C22_DividendsExpectedNonNegative ==
    rendered = "calculations" =>
        LET c == calculations
        IN  /\ IsFinite(c.safeDividendsExpected)
            /\ c.safeDividendsExpected[2] = 1
            /\ RGe(c.safeDividendsExpected, Num(0))
            /\ ~IsFinite(parseInt(formState.dividendsExpected))
                    => c.safeDividendsExpected = Num(0)
            /\ RGe(c.safeDividendPerShare, Num(0))
                    => RGe(c.dividendPerShareTotal, Num(0))

\* The trade-quality result of the state, whichever way it was computed.
QualityResults ==
    (IF rendered = "tradeQuality" THEN {tradeQuality} ELSE {})
    \cup (IF rendered = "calculations" THEN {calculations.tradeQuality} ELSE {})

\* C26: every score evaluateTradeQuality produces is congruent to 0 or 2
\* modulo 5, so 79, 81 and 64 are never produced and the scores next to the
\* boundary between Reasonable and Strong are 75 and 77 below it and 80 and
\* 82 above it.
C26_ScoreResidues ==
    \A q \in QualityResults :
        /\ q.score % 5 \in {0, 2}
        /\ q.score \notin {64, 79, 81}
        /\ (q.score > 72 /\ q.score < 80) => q.score \in {75, 77}
        /\ (q.score >= 80 /\ q.score < 85) => q.score \in {80, 82}
        /\ q.score % 5 = 2 => q.rawScore % 5 = 2

\* C26 witness: a score of 77, two points above a multiple of 5 through
\* the -8 of low implied volatility.
C26_Witness ==
    /\ rendered = "tradeQuality"
    /\ tradeQuality.score = 77
    /\ RLt(tradeQualityInput.impliedVolatilityPct, Num(15))

\* The descriptions the total-return factor can give.
TotalReturnNotes ==
    {"Max return potential is limited", "Return potential is decent",
     "Return potential is strong", "Return potential is very strong",
     "Return potential is exceptional"}

\* C27: for every input each of the five factors contributes at most one
\* entry to the factor list of evaluateTradeQuality, so the (at most two)
\* returned notes describe two different factors: never two total-return
\* descriptions, never the same text twice.
C27_OneEntryPerFactor ==
    \A q \in QualityResults :
        /\ Len(q.factorNotes) <= 5
        /\ Cardinality({i \in 1..Len(q.factorNotes) :
                            q.factorNotes[i].note \in TotalReturnNotes}) <= 1
        /\ Len(q.notes) = 2 =>
              /\ q.notes[1] # q.notes[2]
              /\ ~(q.notes[1] \in TotalReturnNotes
                      /\ q.notes[2] \in TotalReturnNotes)

\* C28: whenever a technical score is present, the unclamped sum
\* rsiScore + adxScore + maScore + atrScore lies in 14..100 (at least
\* 6 + 6 + 2 + 0, at most 30 + 25 + 35 + 10), so neither the final clamp to
\* [0, 100] nor the cap of the moving-average component at 35 changes a
\* value, and a present technical score is never below 14.
C28_SumWithinClamp ==
    (rendered = "technicalScore" /\ technicalScore # Null) =>
        LET t == technicalScore
        IN  /\ t.sum = t.rsiScore + t.adxScore + t.maScore + t.atrScore
            /\ t.rsiScore \in 6..30
            /\ t.adxScore \in 6..25
            /\ t.maUncapped \in 2..35
            /\ t.atrScore \in 0..10
            /\ t.sum \in 14..100
            /\ t.score = t.sum
            /\ t.maScore = t.maUncapped
            /\ t.score >= 14

\* C28 witness: the lowest technical score, 6 + 6 + 2 + 0 = 14.
C28_Witness ==
    /\ rendered = "technicalScore"
    /\ technicalScore # Null
    /\ technicalScore.rsiScore = 6
    /\ technicalScore.adxScore = 6
    /\ technicalScore.maScore = 2
    /\ technicalInput.atr = Null
    /\ technicalScore.score = 14

\* C29 as stated: for every normalized input breakevenPrice +
\* maxProfitPerShare = strikePrice and netCost = netCostPerShare * shares.
C29_Identities_Stated ==
    /\ rendered = "calculations" =>
          /\ RAdd(calculations.breakevenPrice, calculations.maxProfitPerShare)
                = calculations.safeStrikePrice
          /\ calculations.netCost
                = RMul(calculations.netCostPerShare, calculations.safeShares)
    /\ rendered = "calculationsBinary64" =>
          /\ Binary64Add(calculations.breakevenPrice, calculations.maxProfitPerShare)
                = calculations.safeStrikePrice
          /\ calculations.netCost
                = Binary64Mul(calculations.netCostPerShare, calculations.safeShares)

\* C29: breakevenPrice + maxProfitPerShare = strikePrice and netCost =
\* netCostPerShare * shares hold in exact arithmetic for every normalized
\* input, and in the binary64 arithmetic of the code whenever none of the
\* sums and products of the memo is rounded.
C29_Identities ==
    /\ rendered = "calculations" =>
          /\ RAdd(calculations.breakevenPrice, calculations.maxProfitPerShare)
                = calculations.safeStrikePrice
          /\ calculations.netCost
                = RMul(calculations.netCostPerShare, calculations.safeShares)
    /\ (rendered = "calculationsBinary64" /\ calculations.rounded = {}) =>
          /\ Binary64Add(calculations.breakevenPrice, calculations.maxProfitPerShare)
                = calculations.safeStrikePrice
          /\ calculations.netCost
                = Binary64Mul(calculations.netCostPerShare, calculations.safeShares)

\* C29 witness: a binary64 render next to 2^52 in which nothing is rounded
\* and the dividend counts.
C29_Witness ==
    /\ rendered = "calculationsBinary64"
    /\ calculations.rounded = {}
    /\ Len(calculations.safeStockPrice.bits) = 53
    /\ calculations.dividendPerShareTotal # Whole(FALSE, <<>>)
    /\ calculations.breakevenPrice # calculations.netCostPerShare

\* C24: Reset writes the reset form state to storage at once; the save of
\* the reset's own state change is skipped and skipNextSave is false again
\* afterwards; the timer that was pending for the pre-reset form state is
\* cancelled, so no timer is pending after Reset; the save after the next
\* edit is not skipped; and the reset snapshot in storage is replaced only
\* by another Reset or by a timer that writes a current form state other
\* than the reset one, that is, after a later edit.
C24_ResetSnapshotKept ==
    [][/\ Reset =>
             /\ formState' = getResetFormState(today)
             /\ storage' = JSONstringify(formState')
             /\ written' = [by |-> "reset", form |-> formState']
             /\ refs'.timers = {}
             /\ ~refs'.hasCleanup
       /\ ~refs'.skipNextSave
       /\ (Change \/ ResetTechnicals) =>
             \E t \in refs'.timers : t.form = formState'
       /\ (written.by = "reset" /\ storage' # storage) =>
             \/ Reset
             \/ /\ written' = [by |-> "timer", form |-> formState]
                /\ formState # written.form]_vars

\* C24 witness: the page was reset after two saves had been scheduled in this
\* load; storage holds the reset form state, no timer is pending and
\* skipNextSave is false.
C24_Witness ==
    /\ phase = "edited"
    /\ written = [by |-> "reset", form |-> formState]
    /\ formState = getResetFormState(today)
    /\ storage = JSONstringify(formState)
    /\ refs.nextTimerId >= 3
    /\ refs.saveTimeout # 0
    /\ refs.timers = {}
    /\ ~refs.hasCleanup
    /\ ~refs.skipNextSave

\* C25: when storage holds a snapshot that parses at mount, the hydration
\* effect runs before the save effect (hasHydrated is true when the save
\* effect first runs, so a save of the default form state is scheduled and
\* the hydrated state is queued); the re-render for the hydrated state
\* cancels that save and schedules one for the hydrated state; and until
\* the first edit storage is changed only by a timer set after hydration,
\* which writes the hydrated state, never by the save scheduled for the
\* pre-hydration render.
C25_HydratedStateSavedFirst ==
    [][/\ (Mount /\ storage.kind = "json") =>
             /\ phase' = "mounted"
             /\ pendingState' =
                   [queued |-> TRUE,
                    nextState |-> repairFormState(storage.value, defaults')]
             /\ refs'.hasHydrated
             /\ refs'.timers = {[id |-> 1, form |-> defaults']}
       /\ CommitHydration =>
             refs'.timers = {[id |-> 2, form |-> pendingState.nextState]}
       /\ (phase' = "hydrated" /\ storage'.kind = "json") =>
             formState' = repairFormState(storage'.value, defaults')
       /\ (/\ phase \in {"mounted", "hydrated"}
           /\ storage.kind = "json"
           /\ storage' # storage
           /\ ~Reset) =>
             /\ written' = [by |-> "timer", form |-> formState]
             /\ formState = repairFormState(storage.value, defaults)
             /\ storage' = JSONstringify(formState)
             /\ \A t \in refs.timers \ refs'.timers : t.id # 1]_vars

\* C25 witness: the page was loaded over a stored snapshot whose stockPrice
\* is the number 2.75, and the first write of the load has put the hydrated
\* state, not the default one, into storage.
C25_Witness ==
    /\ phase = "hydrated"
    /\ refs.nextTimerId = 3
    /\ refs.timers = {}
    /\ written = [by |-> "timer", form |-> formState]
    /\ formState = [SnapshotForm EXCEPT !.stockPrice = <<"2", ".", "7", "5">>]
    /\ formState # defaults
    /\ storage = JSONstringify(formState)

\* C23: if from some point on the page stays loaded, with its hydration
\* done, and the form state no longer changes, then from some point on
\* storage holds exactly the current form state, written by the debounced
\* timer or by Reset.
C23_PersistenceLiveness ==
    (/\ <>[](phase \in {"hydrated", "edited"})
     /\ <>[][formState' = formState]_vars)
        => <>[](storage = JSONstringify(formState))

\* C23 witness: after an edit the debounced timer has fired and storage
\* holds the edited form state.
C23_Witness ==
    /\ phase = "edited"
    /\ formState # defaults
    /\ formState # getResetFormState(today)
    /\ formState.rsi14 = <<"4", "5">>
    /\ refs.timers = {}
    /\ written = [by |-> "timer", form |-> formState]
    /\ storage = JSONstringify(formState)

\* C30: confetti() is called at most once between two consecutive changes
\* of the form state; it is called only in a render in which the results
\* section is in view, no form input is focused, annualizedReturn is finite
\* and greater than 0.15, and the plan has been updated or differs from the
\* default plan; and a change of the form state re-arms it: once React has
\* rendered what was queued, hasTriggeredConfetti is true exactly when
\* confetti() has been called since the form state last changed.
C30_CelebrationOnce ==
    /\ launches <= 1
    /\ launchedNow =>
          /\ resultsInView
          /\ ~isInputFocused
          /\ IsFinite(calculations.annualizedReturn)
          /\ RGt(calculations.annualizedReturn, Rat(15, 100))
          /\ hasUpdatedPlan \/ ~isDefaultPlan(formState, defaults)
    /\ updates = <<>> => (hasTriggeredConfetti <=> launches = 1)

\* C30 witness: after an earlier celebration the plan was changed, which
\* re-armed the animation, and this render has called confetti() for the
\* new plan.
C30_Witness ==
    /\ launchedNow
    /\ launches = 1
    /\ hasUpdatedPlan
    /\ ~hasTriggeredConfetti
    /\ updates = <<SetState("setHasTriggeredConfetti", TRUE)>>
    /\ formState = [DefaultForm EXCEPT !.premium = <<"3">>]
    /\ lastPlanSnapshot = JSONstringify(formState)

====
